---- MODULE Spec2Model ----
(***************************************************************************)
(* The protocol engine of go-mcp-servicenow (pkg/mcp/server.go): the HTTP  *)
(* transport, the JSON-RPC dispatcher, the tool registry, the sliding      *)
(* window rate limiter and the tool invocation pipeline.                   *)
(*                                                                         *)
(* Every goroutine that serves an HTTP exchange is a process p with a      *)
(* program counter pc[p]; the goroutine that registers tools is the        *)
(* registrar, with program counter regpc.  Shared state is the Server      *)
(* struct.  Strings built with fmt.Sprintf are sequences of fragments, so  *)
(* that "the text contains the name" is something a check can refute.      *)
(***************************************************************************)
EXTENDS Integers, Sequences, FiniteSets, TLC

VARIABLES
    started,             \* RunHTTPWithAuthorizer is serving
    authToken,           \* environment variable MCP_AUTH_TOKEN ("" = unset)
    authorizer,          \* the authorizer RunHTTPWithAuthorizer was given ("nil" = none)
    tools,               \* Server.tools: slice header [ptr, len, cap]
    arrays,              \* the backing arrays the slice headers point into
    handlers,            \* Server.handlers: name -> registration serial (0 = absent)
    ctxHandlers,         \* Server.ctxHandlers: name -> registration serial (0 = absent)
    muWriter,            \* Server.mu held exclusively by ("" = nobody)
    muReaders,           \* processes holding Server.mu shared
    resourceProvider,    \* Server.resourceProvider # nil
    promptProvider,      \* Server.promptProvider # nil
    toolCallTimestamps,  \* Server.toolCallTimestamps
    rateLimitMu,         \* Server.rateLimitMu held by ("" = nobody)
    onToolCall,          \* Server.onToolCall # nil
    onError,             \* Server.onError # nil
    now,                 \* the clock read by time.Now()
    ticks,               \* how often the clock has advanced
    pc,                  \* per process: position in the HTTP handler
    req,                 \* per process: the HTTP request being served
    loc,                 \* per process: local variables of the pipeline
    ret,                 \* per process: what handleMessageWithContext returned
    out,                 \* per process: the HTTP reply written
    events,              \* per process: callbacks fired during the exchange
    regpc,               \* registrar: position in RegisterTool[WithContext]
    regArg,              \* registrar: the registration in progress
    regLog,              \* descriptors of the registrations that completed
    regKinds,            \* per completed registration: was it RegisterToolWithContext
    admitted,            \* admission times recorded by the rate limiter, oldest first
    running,             \* Run: "none" before the call, "select" in the loop, else its return
    receivedData,        \* Run: receivedData
    initialTimeout,      \* Run: the timer channel [deadline, drained]
    readerPc,            \* reader goroutine: position in its loop
    line,                \* reader goroutine: the line ReadString returned
    linesRead,           \* number of ReadString calls that returned a line
    current,             \* Run: serial of the line being handled
    stdout,              \* the lines written to s.stdout
    owed,                \* history: per line read, the id of the response it calls for
    authType,            \* servicenow.Client: config.Auth.Type ("" = no client yet)
    clientToken,         \* servicenow.Client.token: the cached OAuth token ("" = none)
    registry,            \* tools.Registry: "nil", "new" after NewRegistry, "registered" after RegisterAll
    readOnlyMode,        \* tools.Registry.readOnlyMode
    registered,          \* names the tools.Registry passed to server.RegisterTool
    sent,                \* the HTTP requests the client sent to the ServiceNow instance
    lastCall,            \* the latest tool handler call and what it returned
    sigChan,             \* main: sigChan, a channel of capacity 1
    sig,                 \* main: the signal received from sigChan (NoSignal = still waiting)
    runnerPc             \* main's transport goroutine: "none", "running", "done"

vars == <<started, authToken, authorizer, tools, arrays, handlers, ctxHandlers, muWriter,
          muReaders, resourceProvider, promptProvider, toolCallTimestamps,
          rateLimitMu, onToolCall, onError, now, ticks, pc, req, loc, ret, out,
          events, regpc, regArg, regLog, regKinds, admitted, running, receivedData,
          initialTimeout, readerPc, line, linesRead, current, stdout, owed, authType,
          clientToken,
          registry, readOnlyMode, registered, sent, lastCall, sigChan, sig, runnerPc>>

registryVars == <<tools, arrays, handlers, ctxHandlers>>
registrarVars == <<regpc, regArg, regLog, regKinds>>
stdioVars == <<running, receivedData, initialTimeout, readerPc, line, linesRead, current, stdout,
               owed>>
limiterVars == <<toolCallTimestamps, rateLimitMu, admitted>>
lockVars == <<muWriter, muReaders>>
setupVars  == <<started, authToken, authorizer, resourceProvider, promptProvider, onToolCall, onError>>
clockVars  == <<now, ticks>>
toolVars == <<authType, clientToken, registry, readOnlyMode, registered, sent, lastCall>>
mainVars == <<sigChan, sig, runnerPc>>

-----------------------------------------------------------------------------
(* Bounds of the model *)

MaxTicks == 3          \* the clock advances at most this often
MaxRegs == 2           \* registrations in the sequential specification
MaxListRegs == 4       \* registrations in the registry specification
MaxAdmitted == 6       \* admissions recorded in the concurrent specification
MaxLines == 3          \* lines the reader goroutine reads from stdin
MaxSent == 4           \* HTTP requests the ServiceNow client sends

TickSteps == {10}      \* seconds the clock advances by in one step

(* Program constants *)

RateLimitWindow == 20  \* twentySecondsAgo := now.Add(-20 * time.Second)
RateLimitCapacity == 5 \* len(s.toolCallTimestamps) >= 5
InitialTimeoutSeconds == 30      \* time.After(30 * time.Second)
ExtendedTimeoutSeconds == 86400  \* time.After(24 * time.Hour)

AllProcs == {"p1", "p2"}
NoProc == ""

-----------------------------------------------------------------------------
(* Protocol values *)

Null == "nil"                       \* a nil interface value / JSON null
IDs == {"id1", "id2"}
Absent == "<absent>"                \* a key that is not in the params object
NonString == "<non-string>"         \* a value of another JSON type than string
ToolNames == {"echo"}               \* names that RegisterTool is called with
CallNames == {"echo", "ghost"}      \* names that tools/call asks for

ParseError == "ParseError"
MethodNotFound == "MethodNotFound"
InternalError == "InternalError"
AuthError == "-32001"

RequestMethods == {"initialize", "tools/list", "tools/call", "resources/list",
                   "resources/read", "prompts/list", "prompts/get", "ping"}
OtherMethods == {"notifications/initialized", "notifications/cancelled", "bogus/method"}

RateLimitText ==
    "Rate limit exceeded: Maximum 5 tool calls per 20 seconds. Please try again later."

Contains(text, fragment) == \E i \in DOMAIN text : text[i] = fragment

(* Result values.  kind "absent" is the Result field never assigned (a nil  *)
(* interface); kind "nilptr" is a nil *CallToolResult (or provider result)  *)
(* stored in the interface, which encodes as JSON null.                      *)
Result(kind, text, isError, list) ==
    [kind |-> kind, text |-> text, isError |-> isError, list |-> list, items |-> <<>>]
NoSlice == [ptr |-> 0, len |-> 0, cap |-> 0]
NoResult == Result("absent", <<>>, FALSE, NoSlice)
NilPtr == Result("nilptr", <<>>, FALSE, NoSlice)
ToolResult(text, isError) == Result("CallToolResult", text, isError, NoSlice)
Plain(kind) == Result(kind, <<>>, FALSE, NoSlice)

RpcError(code, message, hasData) == [code |-> code, message |-> message, hasData |-> hasData]
NoError == RpcError("none", <<>>, FALSE)

(* mutant: the response does not echo the request's id *)
ResponseWithoutId(id, result, error) ==
    [jsonrpc |-> "2.0", id |-> Null, result |-> result, error |-> error]

Response(id, result, error) ==
    [jsonrpc |-> "2.0", id |-> id, result |-> result, error |-> error]
NoResponse == [jsonrpc |-> "none", id |-> Null, result |-> NoResult, error |-> NoError]

-----------------------------------------------------------------------------
(* Requests *)

Params(isObject, name, uri) == [isObject |-> isObject, name |-> name, uri |-> uri]
NotObject == Params(FALSE, Absent, Absent)
EmptyObject == Params(TRUE, Absent, Absent)

NameParams == {NotObject, EmptyObject, Params(TRUE, NonString, Absent)}
                 \cup {Params(TRUE, n, Absent) : n \in CallNames}
UriParams == {NotObject, EmptyObject, Params(TRUE, Absent, NonString),
              Params(TRUE, Absent, "res://one")}
PromptParams == {NotObject, EmptyObject, Params(TRUE, "greet", Absent)}

ParamsFor(method) ==
    CASE method = "tools/call" -> NameParams
      [] method = "resources/read" -> UriParams
      [] method = "prompts/get" -> PromptParams
      [] OTHER -> {EmptyObject}

Message(id, method, params) ==
    [decodes |-> TRUE, id |-> id, method |-> method, params |-> params]
Malformed == [decodes |-> FALSE, id |-> Null, method |-> "", params |-> NotObject]

Messages ==
    {Malformed} \cup
    UNION { { Message(id, m, ps) : id \in IDs \cup {Null}, ps \in ParamsFor(m) }
            : m \in RequestMethods \cup OtherMethods }

HttpRequest(httpMethod, authorization, xtoken, readErr, msg) ==
    [httpMethod |-> httpMethod, authorization |-> authorization, xtoken |-> xtoken,
     readErr |-> readErr, msg |-> msg]
Post(msg) == HttpRequest("POST", "Bearer secret", "", FALSE, msg)
NoRequest == HttpRequest("", "", "", FALSE, Malformed)

AuthorizationValues == {"", "Bearer secret", "secret", "Bearer wrong"}
XTokenValues == {"", "secret", "wrong"}
PingMessage == Message("id1", "ping", EmptyObject)

(* The requests of the sequential specification: every message behind a      *)
(* token the default authorizer accepts, and every combination of the two    *)
(* authentication headers, a wrong HTTP method and a failing body read in    *)
(* front of one fixed message.                                               *)
HTTPRequests ==
    { Post(m) : m \in Messages } \cup
    { HttpRequest("POST", a, x, FALSE, PingMessage) :
          a \in AuthorizationValues, x \in XTokenValues } \cup
    { HttpRequest("GET", "Bearer secret", "", FALSE, PingMessage),
      HttpRequest("POST", "Bearer secret", "", TRUE, PingMessage) }

(* The requests of the concurrent specification: well-formed and malformed   *)
(* tools/call requests.                                                      *)
CallRequests ==
    { Post(Message("id1", "tools/call", ps)) :
          ps \in {EmptyObject, Params(TRUE, "echo", Absent), Params(TRUE, "ghost", Absent)} }

(* The requests of the authentication specification: one tools/call behind  *)
(* every combination of the two authentication headers, and a GET.           *)
CallEcho == Message("id1", "tools/call", Params(TRUE, "echo", Absent))
AuthRequests ==
    { HttpRequest("POST", a, x, FALSE, CallEcho) :
          a \in AuthorizationValues, x \in XTokenValues } \cup
    { HttpRequest("GET", "", "secret", FALSE, CallEcho) }

(* The requests of the registry specification. *)
ListRequests == { Post(Message(id, "tools/list", EmptyObject)) : id \in IDs }

-----------------------------------------------------------------------------
(* Go values shared by the handlers *)

GoErr(msg) == [nil |-> FALSE, msg |-> msg]
NilErr == [nil |-> TRUE, msg |-> <<>>]
Pair(result, err) == [result |-> result, err |-> err]

(* What a tool handler or a provider method can return: a result, a result  *)
(* with the error flag set, an error, an error beside a result, nothing.    *)
HandlerOutcomes == {"ok", "flagged", "err", "both", "nil"}
ProviderOutcomes == {"ok", "err", "nil"}
CallOutcomes == {"ok", "err"}   \* the outcomes where only the handler's error matters
HandlerErrorText == "connection refused"

(* The locals of one exchange: routed (handleMessageWithContext was         *)
(* called), now (checkRateLimit), limited (what checkRateLimit returned),   *)
(* name, the resolved handler h and whether it is the context-aware one,    *)
(* what the handler or provider returned, the slice handleListTools copied, *)
(* verdict (what a custom authorizer answered).                              *)
(* expect is history: the registrations that had completed when tools/list  *)
(* took the lock.                                                            *)
Locals(routed, nowRead, limited, name, h, ctx, outcome, snap, expect, verdict) ==
    [routed |-> routed, now |-> nowRead, limited |-> limited, name |-> name, h |-> h,
     ctx |-> ctx, outcome |-> outcome, snap |-> snap, expect |-> expect,
     verdict |-> verdict]
NoLocals == Locals(FALSE, 0, "unchecked", Absent, 0, FALSE, "none", NoSlice, <<>>, "allow")
Routed == [NoLocals EXCEPT !.routed = TRUE]

HttpReply(status, contentType, body) ==
    [status |-> status, contentType |-> contentType, body |-> body]
NoReply == HttpReply(0, "", <<>>)

-----------------------------------------------------------------------------
(* The authentication gate of the HTTP handler *)

TrimBearer(token) ==
    CASE token = "Bearer secret" -> "secret"
      [] token = "Bearer wrong" -> "wrong"
      [] OTHER -> token

IsAuthEnabled == authToken # ""

ValidateAgainstExpected(providedToken) ==
    IF authToken = "" THEN TRUE ELSE providedToken = authToken

(* TokenAuthorizer.Authorize: <<authorized, authErr # nil>> *)
Authorize(token) == <<ValidateAgainstExpected(TrimBearer(token)), FALSE>>

(* What a custom authorizer can answer. *)
AuthVerdicts == {"allow", "deny", "error"}
CustomAuthorize(verdict) == <<verdict = "allow", verdict = "error">>

(* mutant: the custom header is the fallback for a refused Authorization too *)
HeaderTokenFallbackOnInvalid(r) ==
    IF TrimBearer(r.authorization) = authToken THEN r.authorization ELSE r.xtoken

(* mutant: the custom header is read first, Authorization as the fallback *)
HeaderTokenCustomFirst(r) == IF r.xtoken # "" THEN r.xtoken ELSE r.authorization

(* "Check Authorization header first, then fall back to X-MCP-Auth-Token" *)
HeaderToken(r) == IF r.authorization # "" THEN r.authorization ELSE r.xtoken

AuthEnvelope(text) == Response(Null, NoResult, RpcError(AuthError, <<text>>, FALSE))

(* mutant: the authorizer's answer is not looked at *)
GateReplyUnchecked(r, verdict) ==
    IF r.httpMethod # "POST"
    THEN HttpReply(405, "text/plain", <<>>)
    ELSE IF IsAuthEnabled /\ HeaderToken(r) = ""
    THEN HttpReply(401, "application/json",
                   <<AuthEnvelope("Unauthorized: missing Authorization header")>>)
    ELSE IF r.readErr
    THEN HttpReply(400, "application/json",
                   <<Response(Null, NoResult, RpcError(ParseError, <<"Parse error">>, FALSE))>>)
    ELSE NoReply

(* The replies the handler writes before it dispatches; NoReply when the    *)
(* request passes on to handleMessageWithContext.                            *)
GateReply(r, verdict) ==
    IF r.httpMethod # "POST"
    THEN HttpReply(405, "text/plain", <<>>)
    ELSE IF IsAuthEnabled /\ HeaderToken(r) = ""
    THEN HttpReply(401, "application/json",
                   <<AuthEnvelope("Unauthorized: missing Authorization header")>>)
    ELSE IF IsAuthEnabled /\
            LET answer == IF authorizer # "nil" THEN CustomAuthorize(verdict)
                          ELSE Authorize(HeaderToken(r))
            IN  answer[2] \/ ~answer[1]
    THEN HttpReply(401, "application/json",
                   <<AuthEnvelope("Unauthorized: invalid authentication token")>>)
    ELSE IF r.readErr
    THEN HttpReply(400, "application/json",
                   <<Response(Null, NoResult, RpcError(ParseError, <<"Parse error">>, FALSE))>>)
    ELSE NoReply

-----------------------------------------------------------------------------
(* The dispatcher's handlers that take no lock *)

handleInitialize ==
    Result("InitializeResult",
           <<"2024-11-05", "tools">>
               \o (IF resourceProvider THEN <<"resources">> ELSE <<>>)
               \o (IF promptProvider THEN <<"prompts">> ELSE <<>>),
           FALSE, NoSlice)

ProviderReturn(kind, outcome) ==
    CASE outcome = "ok" -> Pair(Plain(kind), NilErr)
      [] outcome = "err" -> Pair(NilPtr, GoErr(<<"provider failure">>))
      [] OTHER -> Pair(NilPtr, NilErr)

handleListResources == Plain("ListResourcesResult")

handleReadResource(params, outcome) ==
    IF ~resourceProvider THEN Pair(NilPtr, GoErr(<<"resources not supported">>))
    ELSE IF ~params.isObject THEN Pair(NilPtr, GoErr(<<"invalid params type">>))
    ELSE IF params.uri \in {Absent, NonString}
    THEN Pair(NilPtr, GoErr(<<"missing resource uri">>))
    ELSE ProviderReturn("ReadResourceResult", outcome)

handleListPrompts == Plain("ListPromptsResult")

handleGetPrompt(params, outcome) ==
    IF ~promptProvider THEN Pair(NilPtr, GoErr(<<"prompts not supported">>))
    ELSE IF ~params.isObject THEN Pair(NilPtr, GoErr(<<"invalid params type">>))
    ELSE IF params.name \in {Absent, NonString}
    THEN Pair(NilPtr, GoErr(<<"missing prompt name">>))
    ELSE ProviderReturn("GetPromptResult", outcome)

(* The parameter checks at the head of handleCallToolWithContext. *)
ValidateCall(params) ==
    IF ~params.isObject THEN GoErr(<<"invalid params type">>)
    ELSE IF params.name \in {Absent, NonString} THEN GoErr(<<"missing tool name">>)
    ELSE NilErr

(* The three "result, err :=" cases of handleRequestWithContext. *)
WrapResult(id, pair) ==
    IF ~pair.err.nil
    THEN Response(id, NoResult, RpcError(InternalError, pair.err.msg, FALSE))
    ELSE Response(id, pair.result, NoError)

(* mutant: the method-not-found message does not name the method *)
MethodNotFoundNoName(id, method) ==
    Response(id, NoResult, RpcError(MethodNotFound, <<"Method not found">>, FALSE))

MethodNotFoundResponse(id, method) ==
    Response(id, NoResult, RpcError(MethodNotFound, <<"Method not found: ", method>>, FALSE))

(* handleRequestWithContext for every method but tools/list and a well-     *)
(* formed tools/call, which go on to take the locks.                        *)
handleRequestWithContext(msg, outcome) ==
    CASE msg.method = "initialize" -> Response(msg.id, handleInitialize, NoError)
      [] msg.method = "tools/call" -> WrapResult(msg.id, Pair(NilPtr, ValidateCall(msg.params)))
      [] msg.method = "resources/list" -> Response(msg.id, handleListResources, NoError)
      [] msg.method = "resources/read" ->
             WrapResult(msg.id, handleReadResource(msg.params, outcome))
      [] msg.method = "prompts/list" -> Response(msg.id, handleListPrompts, NoError)
      [] msg.method = "prompts/get" ->
             WrapResult(msg.id, handleGetPrompt(msg.params, outcome))
      [] msg.method = "ping" -> Response(msg.id, Plain("map"), NoError)
      [] OTHER -> MethodNotFoundResponse(msg.id, msg.method)

(* mutant: a decode failure is reported with the internal-error code *)
ParseErrorAsInternal ==
    Response(Null, NoResult, RpcError(InternalError, <<"Parse error">>, TRUE))

ParseErrorResponse ==
    Response(Null, NoResult, RpcError(ParseError, <<"Parse error">>, TRUE))

(* mutant: only the two notification methods are treated as notifications *)
IsKnownNotification(msg) ==
    msg.id = Null /\ msg.method \in {"notifications/initialized", "notifications/cancelled"}

(* "Handle notifications (no ID)": request.ID == nil *)
IsNotification(msg) == msg.id = Null

TakesLocks(msg) ==
    \/ msg.method = "tools/list"
    \/ msg.method = "tools/call" /\ ValidateCall(msg.params).nil

(* mutant: the encoder reads the server's slice, not the copy in the result *)
SerializeLive(response) ==
    LET r == response.result
    IN  [response EXCEPT !.result =
            CASE r.kind = "nilptr" -> [r EXCEPT !.kind = "null"]
              [] r.kind = "ListToolsResult" ->
                     [r EXCEPT !.items = IF tools.len = 0 THEN <<>>
                                         ELSE SubSeq(arrays[tools.ptr], 1, tools.len)]
              [] OTHER -> r]

(* json.NewEncoder(w).Encode(response): a slice is written element by       *)
(* element from its backing array, a nil pointer is written as null.         *)
Serialize(response) ==
    LET r == response.result
    IN  [response EXCEPT !.result =
            CASE r.kind = "nilptr" -> [r EXCEPT !.kind = "null"]
              [] r.kind = "ListToolsResult" ->
                     [r EXCEPT !.items = IF r.list.len = 0 THEN <<>>
                                         ELSE SubSeq(arrays[r.list.ptr], 1, r.list.len)]
              [] OTHER -> r]

-----------------------------------------------------------------------------
(* Initial state: NewServer, nothing registered, nothing served yet *)

Descriptor(name, serial) == [name |-> name, serial |-> serial]
EmptySlot == Descriptor("", 0)
NoRegistration == [name |-> "", ctx |-> FALSE, serial |-> 0]
NoTimer == [deadline |-> 0, drained |-> TRUE]
Signal(name, from) == [name |-> name, from |-> from]
NoSignal == Signal("", "")
NoCall == [name |-> "", via |-> "", result |-> NoResult, sends |-> 0]

Init ==
    /\ started = FALSE
    /\ authToken \in {"", "secret"}
    /\ authorizer = "nil"
    /\ tools = NoSlice
    /\ arrays = <<>>
    /\ handlers = [n \in CallNames |-> 0]
    /\ ctxHandlers = [n \in CallNames |-> 0]
    /\ muWriter = NoProc
    /\ muReaders = {}
    /\ resourceProvider = FALSE
    /\ promptProvider = FALSE
    /\ toolCallTimestamps = <<>>
    /\ rateLimitMu = NoProc
    /\ onToolCall = FALSE
    /\ onError = FALSE
    /\ now = 0
    /\ ticks = 0
    /\ pc = [p \in AllProcs |-> "idle"]
    /\ req = [p \in AllProcs |-> NoRequest]
    /\ loc = [p \in AllProcs |-> NoLocals]
    /\ ret = [p \in AllProcs |-> NoResponse]
    /\ out = [p \in AllProcs |-> NoReply]
    /\ events = [p \in AllProcs |-> <<>>]
    /\ regpc = "idle"
    /\ regArg = NoRegistration
    /\ regLog = <<>>
    /\ regKinds = <<>>
    /\ admitted = <<>>
    /\ running = "none"
    /\ receivedData = FALSE
    /\ initialTimeout = NoTimer
    /\ readerPc = "none"
    /\ line = <<>>
    /\ linesRead = 0
    /\ current = 0
    /\ stdout = <<>>
    /\ owed = <<>>
    /\ authType = ""
    /\ clientToken = ""
    /\ registry = "nil"
    /\ readOnlyMode = FALSE
    /\ registered = {}
    /\ sent = <<>>
    /\ lastCall = NoCall
    /\ sigChan = <<>>
    /\ sig = NoSignal
    /\ runnerPc = "none"

-----------------------------------------------------------------------------
(* Start-up: the setters main calls before it starts a transport *)

SetToolCallCallback ==
    /\ ~started /\ ~onToolCall
    /\ onToolCall' = TRUE
    /\ UNCHANGED <<toolVars, mainVars, started, authToken, authorizer, resourceProvider, promptProvider, onError,
                   registryVars, registrarVars, stdioVars, limiterVars, lockVars, clockVars,
                   pc, req, loc, ret, out, events>>

SetErrorCallback ==
    /\ ~started /\ ~onError
    /\ onError' = TRUE
    /\ UNCHANGED <<toolVars, mainVars, started, authToken, authorizer, resourceProvider, promptProvider, onToolCall,
                   registryVars, registrarVars, stdioVars, limiterVars, lockVars, clockVars,
                   pc, req, loc, ret, out, events>>

RegisterResourceProvider ==
    /\ ~started /\ ~resourceProvider
    /\ resourceProvider' = TRUE
    /\ UNCHANGED <<toolVars, mainVars, started, authToken, authorizer, promptProvider, onToolCall, onError,
                   registryVars, registrarVars, stdioVars, limiterVars, lockVars, clockVars,
                   pc, req, loc, ret, out, events>>

RegisterPromptProvider ==
    /\ ~started /\ ~promptProvider
    /\ promptProvider' = TRUE
    /\ UNCHANGED <<toolVars, mainVars, started, authToken, authorizer, resourceProvider, onToolCall, onError,
                   registryVars, registrarVars, stdioVars, limiterVars, lockVars, clockVars,
                   pc, req, loc, ret, out, events>>

RunHTTP ==
    /\ ~started
    /\ regpc = "idle"
    /\ started' = TRUE
    /\ authorizer' = "nil"
    /\ UNCHANGED <<toolVars, mainVars, authToken, resourceProvider, promptProvider, onToolCall, onError,
                   registryVars, registrarVars, stdioVars, limiterVars, lockVars, clockVars,
                   pc, req, loc, ret, out, events>>

RunHTTPWithAuthorizer ==
    /\ ~started
    /\ regpc = "idle"
    /\ started' = TRUE
    /\ authorizer' = "custom"
    /\ UNCHANGED <<toolVars, mainVars, authToken, resourceProvider, promptProvider, onToolCall, onError,
                   registryVars, registrarVars, stdioVars, limiterVars, lockVars, clockVars,
                   pc, req, loc, ret, out, events>>

(* time passes *)
Tick ==
    /\ ticks < MaxTicks
    /\ \E d \in TickSteps : now' = now + d
    /\ ticks' = ticks + 1
    /\ UNCHANGED <<toolVars, mainVars, setupVars, registryVars, registrarVars, stdioVars, limiterVars, lockVars,
                   pc, req, loc, ret, out, events>>

-----------------------------------------------------------------------------
(* Tool registry: RegisterTool and RegisterToolWithContext *)

(* append(s.tools, tool): in place while the capacity lasts, else into a    *)
(* fresh array of twice the capacity that the old elements are copied to.   *)
GrownCap(cap) == IF cap = 0 THEN 1 ELSE 2 * cap

AppendSlice(slice, heap, tool) ==
    IF slice.len < slice.cap
    THEN [slice |-> [slice EXCEPT !.len = slice.len + 1],
          heap  |-> [heap EXCEPT ![slice.ptr][slice.len + 1] = tool]]
    ELSE LET old == IF slice.len = 0 THEN <<>> ELSE SubSeq(heap[slice.ptr], 1, slice.len)
             new == [i \in 1..GrownCap(slice.cap) |->
                        IF i <= slice.len THEN old[i]
                        ELSE IF i = slice.len + 1 THEN tool ELSE EmptySlot]
         IN  [slice |-> [ptr |-> Len(heap) + 1, len |-> slice.len + 1,
                         cap |-> GrownCap(slice.cap)],
              heap  |-> Append(heap, new)]

(* s.mu.Lock() on entry to either registration function *)
RegisterLock(ctx, maxRegs) ==
    /\ regpc = "idle"
    /\ Len(regLog) < maxRegs
    /\ muWriter = NoProc /\ muReaders = {}
    /\ \E n \in ToolNames :
           regArg' = [name |-> n, ctx |-> ctx, serial |-> Len(regLog) + 1]
    /\ muWriter' = "registrar"
    /\ regpc' = "append"
    /\ UNCHANGED <<toolVars, mainVars, setupVars, registryVars, regLog, regKinds, stdioVars, limiterVars, muReaders, clockVars,
                   pc, req, loc, ret, out, events>>

RegisterTool(maxRegs) == RegisterLock(FALSE, maxRegs)

RegisterToolWithContext(maxRegs) == RegisterLock(TRUE, maxRegs)

(* s.tools = append(s.tools, tool) *)
RegisterAppend ==
    /\ regpc = "append"
    /\ LET a == AppendSlice(tools, arrays, Descriptor(regArg.name, regArg.serial))
       IN  tools' = a.slice /\ arrays' = a.heap
    /\ regpc' = "store"
    /\ UNCHANGED <<toolVars, mainVars, setupVars, handlers, ctxHandlers, regArg, regLog, regKinds, stdioVars,
                   limiterVars, lockVars,
                   clockVars, pc, req, loc, ret, out, events>>

(* mutant: an entry that exists is not overwritten *)
StoreHandlerIfAbsent(map, name, serial) ==
    IF map[name] # 0 THEN map ELSE [map EXCEPT ![name] = serial]

(* map[tool.Name] = handler *)
StoreHandler(map, name, serial) == [map EXCEPT ![name] = serial]

(* s.handlers[tool.Name] = handler (or s.ctxHandlers), then the deferred Unlock *)
RegisterStore ==
    /\ regpc = "store"
    /\ IF regArg.ctx
       THEN /\ ctxHandlers' = StoreHandler(ctxHandlers, regArg.name, regArg.serial)
            /\ UNCHANGED handlers
       ELSE /\ handlers' = StoreHandler(handlers, regArg.name, regArg.serial)
            /\ UNCHANGED ctxHandlers
    /\ muWriter' = NoProc
    /\ regLog' = Append(regLog, Descriptor(regArg.name, regArg.serial))
    /\ regKinds' = Append(regKinds, regArg.ctx)
    /\ regpc' = "idle"
    /\ UNCHANGED <<toolVars, mainVars, setupVars, tools, arrays, regArg, stdioVars, limiterVars, muReaders, clockVars,
                   pc, req, loc, ret, out, events>>

-----------------------------------------------------------------------------
(* The HTTP handler of the protocol route, one goroutine per request *)

(* The inputs that are read at all: the custom authorizer is called only   *)
(* behind an enabled gate with a token, a provider only by its two methods. *)
ConsultsAuthorizer(r) ==
    r.httpMethod = "POST" /\ IsAuthEnabled /\ HeaderToken(r) # "" /\ authorizer # "nil"

ConsultsProvider(r) ==
    /\ r.msg.decodes /\ ~IsNotification(r.msg)
    /\ \/ r.msg.method = "resources/read" /\ resourceProvider
          /\ r.msg.params.isObject /\ r.msg.params.uri \notin {Absent, NonString}
       \/ r.msg.method = "prompts/get" /\ promptProvider
          /\ r.msg.params.isObject /\ r.msg.params.name \notin {Absent, NonString}

(* handleMessageWithContext and handleRequestWithContext up to the point     *)
(* where the dispatcher either has its answer or must take a lock:           *)
(* json.Unmarshal, the notification test and the routing switch with the     *)
(* handlers that take no lock.  start is the locals the caller enters with.  *)
Dispatch(p, msg, outcome, start) ==
    IF ~msg.decodes
    THEN /\ ret' = [ret EXCEPT ![p] = ParseErrorResponse]
         /\ loc' = [loc EXCEPT ![p] = start]
         /\ pc' = [pc EXCEPT ![p] = "write"]
    ELSE IF IsNotification(msg)
    THEN /\ ret' = [ret EXCEPT ![p] = NoResponse]
         /\ loc' = [loc EXCEPT ![p] = start]
         /\ pc' = [pc EXCEPT ![p] = "write"]
    ELSE IF msg.method = "tools/list"
    THEN /\ ret' = [ret EXCEPT ![p] = NoResponse]
         /\ loc' = [loc EXCEPT ![p] = start]
         /\ pc' = [pc EXCEPT ![p] = "list"]
    ELSE IF TakesLocks(msg)
    THEN /\ ret' = [ret EXCEPT ![p] = NoResponse]
         /\ loc' = [loc EXCEPT ![p] = [start EXCEPT !.name = msg.params.name]]
         /\ pc' = [pc EXCEPT ![p] = "ratelimit"]
    ELSE /\ ret' = [ret EXCEPT ![p] = handleRequestWithContext(msg, outcome)]
         /\ loc' = [loc EXCEPT ![p] = [start EXCEPT !.outcome = outcome]]
         /\ pc' = [pc EXCEPT ![p] = "write"]

(* The HTTP handler from the arrival of the request: the method check, the   *)
(* authentication gate, io.ReadAll, and the call of                          *)
(* handleMessageWithContext.                                                 *)
Receive(p, requests) ==
    /\ started
    /\ pc[p] = "idle"
    /\ \E r \in requests, verdict \in AuthVerdicts, outcome \in ProviderOutcomes :
        LET gate == GateReply(r, verdict)
        IN  /\ ConsultsAuthorizer(r) \/ verdict = "allow"
            /\ ConsultsProvider(r) \/ outcome = "ok"
            /\ req' = [req EXCEPT ![p] = r]
            /\ events' = [events EXCEPT ![p] = <<>>]
            /\ IF gate # NoReply
               THEN /\ out' = [out EXCEPT ![p] = gate]
                    /\ ret' = [ret EXCEPT ![p] = NoResponse]
                    /\ loc' = [loc EXCEPT ![p] = [NoLocals EXCEPT !.verdict = verdict]]
                    /\ pc' = [pc EXCEPT ![p] = "done"]
               ELSE /\ out' = [out EXCEPT ![p] = NoReply]
                    /\ Dispatch(p, r.msg, outcome, [Routed EXCEPT !.verdict = verdict])
    /\ UNCHANGED <<toolVars, mainVars, setupVars, registryVars, registrarVars, stdioVars, limiterVars, lockVars,
                   clockVars>>

(* checkRateLimit: s.rateLimitMu.Lock(); now := time.Now() *)
RateLimitEnter(p) ==
    /\ pc[p] = "ratelimit"
    /\ rateLimitMu = NoProc
    /\ rateLimitMu' = p
    /\ loc' = [loc EXCEPT ![p].now = now]
    /\ pc' = [pc EXCEPT ![p] = "rl_check"]
    /\ UNCHANGED <<toolVars, mainVars, setupVars, registryVars, registrarVars, stdioVars, toolCallTimestamps, admitted,
                   lockVars, clockVars, req, ret, out, events>>

(* mutant: the window is never pruned *)
PruneNothing(timestamps, nowRead) == timestamps

(* mutant: a timestamp exactly one window old is kept *)
PruneInclusive(timestamps, nowRead) ==
    SelectSeq(timestamps, LAMBDA ts : ts >= nowRead - RateLimitWindow)

(* "Remove old timestamps": keeps ts.After(twentySecondsAgo) *)
Prune(timestamps, nowRead) ==
    SelectSeq(timestamps, LAMBDA ts : ts > nowRead - RateLimitWindow)

(* mutant: the capacity test is off by one *)
IsLimitedOffByOne(timestamps) == Len(timestamps) > RateLimitCapacity

IsLimited(timestamps) == Len(timestamps) >= RateLimitCapacity

RateLimitResult == ToolResult(<<RateLimitText>>, TRUE)

(* mutant: a rejected check records its time as well *)
WindowAfterAlwaysRecording(kept, t, limited) == Append(kept, t)

(* mutant: an admitted check records nothing *)
WindowAfterNeverRecording(kept, t, limited) == kept

(* if len(...) >= 5 { return true }; otherwise append(..., now) *)
WindowAfter(kept, t, limited) == IF limited THEN kept ELSE Append(kept, t)

(* mutant: a rejected call goes on to the handler lookup *)
AfterCheckAlwaysResolve(limited) == "resolve"

(* if s.checkRateLimit() { return &CallToolResult{...}, nil } *)
AfterCheck(limited) == IF limited THEN "write" ELSE "resolve"

(* checkRateLimit from the pruning loop to the deferred Unlock, and the     *)
(* branch of handleCallToolWithContext on its answer                         *)
RateLimitCheck(p) ==
    /\ pc[p] = "rl_check"
    /\ LET kept == Prune(toolCallTimestamps, loc[p].now)
           limited == IsLimited(kept)
       IN  /\ toolCallTimestamps' = WindowAfter(kept, loc[p].now, limited)
           /\ pc' = [pc EXCEPT ![p] = AfterCheck(limited)]
           /\ IF limited
              THEN /\ UNCHANGED admitted
                   /\ ret' = [ret EXCEPT ![p] =
                                 WrapResult(req[p].msg.id, Pair(RateLimitResult, NilErr))]
                   /\ loc' = [loc EXCEPT ![p].now = 0, ![p].limited = "limited"]
              ELSE /\ admitted' = Append(admitted, loc[p].now)
                   /\ UNCHANGED ret
                   /\ loc' = [loc EXCEPT ![p].now = 0, ![p].limited = "admitted"]
    /\ rateLimitMu' = NoProc
    /\ UNCHANGED <<toolVars, mainVars, setupVars, registryVars, registrarVars, stdioVars, lockVars, clockVars,
                   req, out, events>>

(* s.mu.RLock() before the handler lookup *)
ResolveLock(p) ==
    /\ pc[p] = "resolve"
    /\ muWriter = NoProc
    /\ muReaders' = muReaders \cup {p}
    /\ pc' = [pc EXCEPT ![p] = "resolve_read"]
    /\ UNCHANGED <<toolVars, mainVars, setupVars, registryVars, registrarVars, stdioVars, limiterVars, muWriter, clockVars,
                   req, loc, ret, out, events>>

(* mutant: the unknown-tool text does not name the tool *)
UnknownToolResultNoName(name) == ToolResult(<<"Unknown tool">>, TRUE)

UnknownToolResult(name) == ToolResult(<<"Unknown tool: ", name>>, TRUE)

(* mutant: the plain handler is preferred when both exist *)
PreferPlain(handlerExists, ctxHandlerExists) == ~handlerExists

(* "Prefer context-aware handler if available": if ctxHandlerExists *)
PreferContext(handlerExists, ctxHandlerExists) == ctxHandlerExists

(* mutant: the read lock is still held when the handler is called *)
ReadUnlockKept(p) == muReaders

(* s.mu.RUnlock() after the two lookups *)
ReadUnlock(p) == muReaders \ {p}

(* the two map lookups, s.mu.RUnlock(), and the unknown-tool branch *)
ResolveRead(p) ==
    /\ pc[p] = "resolve_read"
    /\ LET name == loc[p].name
           handlerExists == handlers[name] # 0
           ctxHandlerExists == ctxHandlers[name] # 0
           useCtx == PreferContext(handlerExists, ctxHandlerExists)
       IN  IF ~handlerExists /\ ~ctxHandlerExists
           THEN /\ ret' = [ret EXCEPT ![p] =
                              WrapResult(req[p].msg.id, Pair(UnknownToolResult(name), NilErr))]
                /\ UNCHANGED loc
                /\ pc' = [pc EXCEPT ![p] = "write"]
           ELSE /\ loc' = [loc EXCEPT ![p].ctx = useCtx,
                                      ![p].h = IF useCtx THEN ctxHandlers[name]
                                               ELSE handlers[name]]
                /\ UNCHANGED ret
                /\ pc' = [pc EXCEPT ![p] = "invoke"]
    /\ muReaders' = ReadUnlock(p)
    /\ UNCHANGED <<toolVars, mainVars, setupVars, registryVars, registrarVars, stdioVars, limiterVars, muWriter, clockVars,
                   req, out, events>>

(* startTime := time.Now(); the resolved handler is called *)
InvokeHandler(p) ==
    /\ pc[p] = "invoke"
    /\ pc' = [pc EXCEPT ![p] = "running"]
    /\ UNCHANGED <<toolVars, mainVars, setupVars, registryVars, registrarVars, stdioVars, limiterVars, lockVars, clockVars,
                   req, loc, ret, out, events>>

HandlerReturn(outcome) ==
    CASE outcome = "ok" -> Pair(ToolResult(<<"tool output">>, FALSE), NilErr)
      [] outcome = "flagged" -> Pair(ToolResult(<<"tool failure">>, TRUE), NilErr)
      [] outcome = "err" -> Pair(NilPtr, GoErr(<<HandlerErrorText>>))
      [] outcome = "both" -> Pair(ToolResult(<<"partial output">>, FALSE),
                                  GoErr(<<HandlerErrorText>>))
      [] OTHER -> Pair(NilPtr, NilErr)

Success(pair) == pair.err.nil /\ (pair.result.kind = "nilptr" \/ ~pair.result.isError)

ErrorResult(err) == ToolResult(<<"Error: ">> \o err.msg, TRUE)

(* mutant: the handler's error is returned to the dispatcher as an error *)
CallToolReturnPropagating(pair) ==
    IF ~pair.err.nil THEN Pair(NilPtr, pair.err) ELSE Pair(pair.result, NilErr)

(* what handleCallToolWithContext returns once the handler has returned *)
CallToolReturn(pair) ==
    IF ~pair.err.nil THEN Pair(ErrorResult(pair.err), NilErr) ELSE Pair(pair.result, NilErr)

Telemetry(name, success) == [cb |-> "onToolCall", name |-> name, success |-> success]
ErrorReport(name) == [cb |-> "onError", name |-> name, success |-> FALSE]

(* mutant: the error callback is not called *)
CallbacksTelemetryOnly(name, pair) ==
    IF onToolCall THEN <<Telemetry(name, Success(pair))>> ELSE <<>>

(* the callbacks handleCallToolWithContext fires after the handler returned *)
Callbacks(name, pair) ==
    (IF onToolCall THEN <<Telemetry(name, Success(pair))>> ELSE <<>>)
    \o (IF ~pair.err.nil /\ onError THEN <<ErrorReport(name)>> ELSE <<>>)

(* the handler returns; telemetry, error callback, error normalisation and  *)
(* the wrapping of the result by handleRequestWithContext                    *)
HandlerDone(p, outcomes) ==
    /\ pc[p] = "running"
    /\ \E outcome \in outcomes :
        LET pair == HandlerReturn(outcome)
        IN  /\ loc' = [loc EXCEPT ![p].outcome = outcome]
            /\ events' = [events EXCEPT ![p] = Callbacks(loc[p].name, pair)]
            /\ ret' = [ret EXCEPT ![p] = WrapResult(req[p].msg.id, CallToolReturn(pair))]
    /\ pc' = [pc EXCEPT ![p] = "write"]
    /\ UNCHANGED <<toolVars, mainVars, setupVars, registryVars, registrarVars, stdioVars, limiterVars, lockVars, clockVars,
                   req, out>>

(* handleListTools: s.mu.RLock() *)
ListLock(p) ==
    /\ pc[p] = "list"
    /\ muWriter = NoProc
    /\ muReaders' = muReaders \cup {p}
    /\ loc' = [loc EXCEPT ![p].expect = regLog]
    /\ pc' = [pc EXCEPT ![p] = "list_read"]
    /\ UNCHANGED <<toolVars, mainVars, setupVars, registryVars, registrarVars, stdioVars, limiterVars, muWriter, clockVars,
                   req, ret, out, events>>

handleListTools(slice) == Result("ListToolsResult", <<>>, FALSE, slice)

(* return &ListToolsResult{Tools: s.tools} and the deferred RUnlock *)
ListRead(p) ==
    /\ pc[p] = "list_read"
    /\ loc' = [loc EXCEPT ![p].snap = tools]
    /\ ret' = [ret EXCEPT ![p] = Response(req[p].msg.id, handleListTools(tools), NoError)]
    /\ muReaders' = muReaders \ {p}
    /\ pc' = [pc EXCEPT ![p] = "write"]
    /\ UNCHANGED <<toolVars, mainVars, setupVars, registryVars, registrarVars, stdioVars, limiterVars, muWriter, clockVars,
                   req, out, events>>

(* if response != nil { json.NewEncoder(w).Encode(response) }: status 200 *)
WriteReply(p) ==
    /\ pc[p] = "write"
    /\ out' = [out EXCEPT ![p] =
                  IF ret[p] = NoResponse THEN HttpReply(200, "", <<>>)
                  ELSE HttpReply(200, "application/json", <<Serialize(ret[p])>>)]
    /\ pc' = [pc EXCEPT ![p] = "done"]
    /\ UNCHANGED <<toolVars, mainVars, setupVars, registryVars, registrarVars, stdioVars, limiterVars, lockVars, clockVars,
                   req, loc, ret, events>>

(* the handler function returns and its goroutine ends *)
Finish(p) ==
    /\ pc[p] = "done"
    /\ pc' = [pc EXCEPT ![p] = "idle"]
    /\ req' = [req EXCEPT ![p] = NoRequest]
    /\ loc' = [loc EXCEPT ![p] = NoLocals]
    /\ ret' = [ret EXCEPT ![p] = NoResponse]
    /\ out' = [out EXCEPT ![p] = NoReply]
    /\ events' = [events EXCEPT ![p] = <<>>]
    /\ UNCHANGED <<toolVars, mainVars, setupVars, registryVars, registrarVars, stdioVars, limiterVars, lockVars, clockVars>>

ServeCall(p, outcomes) ==
    \/ RateLimitEnter(p)
    \/ RateLimitCheck(p)
    \/ ResolveLock(p)
    \/ ResolveRead(p)
    \/ InvokeHandler(p)
    \/ HandlerDone(p, outcomes)

ServeList(p) ==
    \/ ListLock(p)
    \/ ListRead(p)

ServeEnd(p) ==
    \/ WriteReply(p)
    \/ Finish(p)

-----------------------------------------------------------------------------
(* The stdio transport: Run, its reader goroutine and sendResponse.  The    *)
(* main loop serves each line as process "p1".                               *)

Main == "p1"

(* A line of text is a sequence of characters; a token in braces stands for *)
(* the text of one JSON object.                                              *)
Whitespace == {" ", "\t", "\n", "\r"}
PingText == "{ping id1}"
NotifyText == "{notifications/initialized}"
CallText == "{tools/call echo id2}"
ListText == "{tools/list id1}"
BadText == "{bad"
Payloads == {PingText, NotifyText, CallText, ListText, BadText}

(* what reader.ReadString('\n') returns with a nil error *)
StdinLines ==
    {<<"\n">>, <<" ", "\r", "\n">>, <<"\t", PingText, " ", "\r", "\n">>}
        \cup {<<t, "\n">> : t \in Payloads}

(* ... and what it returns beside io.EOF: the text after the last newline *)
StdinTails == {<<>>, <<" ">>, <<PingText>>}

RECURSIVE TrimStart(_)
TrimStart(s) == IF s # <<>> /\ Head(s) \in Whitespace THEN TrimStart(Tail(s)) ELSE s

RECURSIVE TrimEnd(_)
TrimEnd(s) ==
    IF s # <<>> /\ s[Len(s)] \in Whitespace THEN TrimEnd(SubSeq(s, 1, Len(s) - 1)) ELSE s

trimLine(s) == TrimEnd(TrimStart(s))

(* json.Unmarshal([]byte(line), &request) *)
Unmarshal(text) ==
    IF text = <<PingText>> THEN PingMessage
    ELSE IF text = <<NotifyText>>
    THEN Message(Null, "notifications/initialized", EmptyObject)
    ELSE IF text = <<CallText>> THEN Message("id2", "tools/call", Params(TRUE, "echo", Absent))
    ELSE IF text = <<ListText>> THEN Message("id1", "tools/list", EmptyObject)
    ELSE Malformed

(* the request record of a line: no HTTP method, no headers *)
StdioRequest(msg) == HttpRequest("", "", "", FALSE, msg)

Timer(deadline) == [deadline |-> deadline, drained |-> FALSE]

(* Run up to the head of its loop: the channels, the reader goroutine,      *)
(* receivedData := false, initialTimeout := time.After(30 * time.Second)     *)
Run ==
    /\ running = "none" /\ ~started
    /\ regpc = "idle"
    /\ running' = "select"
    /\ readerPc' = "read"
    /\ receivedData' = FALSE
    /\ initialTimeout' = Timer(now + InitialTimeoutSeconds)
    /\ UNCHANGED <<toolVars, mainVars, setupVars, registryVars, registrarVars, limiterVars, lockVars, clockVars,
                   pc, req, loc, ret, out, events, line, linesRead, current, stdout, owed>>

(* history: the response the line calls for: none for a blank line or a    *)
(* notification, a parse error for text that does not decode, else the id  *)
Owes(l) ==
    LET text == trimLine(l)
    IN  IF text = <<>> THEN ""
        ELSE IF ~Unmarshal(text).decodes THEN ParseError
        ELSE IF Unmarshal(text).id = Null THEN ""
        ELSE Unmarshal(text).id

(* mutant: at end-of-stream the text after the last newline is not sent on *)
AfterEOFDropsTail(tail) == "send_eof"

(* if err == io.EOF { if line != "" { lines <- line }; errors <- io.EOF } *)
AfterEOF(tail) == IF tail # <<>> THEN "send_last" ELSE "send_eof"

(* reader goroutine: line, err := reader.ReadString('\n') and the branch on *)
(* err, up to the channel send it blocks in                                  *)
ReaderRead ==
    /\ readerPc = "read"
    /\ \/ \E l \in StdinLines :
              /\ linesRead < MaxLines
              /\ line' = l
              /\ linesRead' = linesRead + 1
              /\ owed' = Append(owed, Owes(l))
              /\ readerPc' = "send_line"
       \/ \E l \in StdinTails :
              /\ readerPc' = AfterEOF(l)
              /\ IF l # <<>>
                 THEN /\ linesRead < MaxLines
                      /\ line' = l
                      /\ linesRead' = linesRead + 1
                      /\ owed' = Append(owed, Owes(l))
                 ELSE UNCHANGED <<line, linesRead, owed>>
       \/ /\ readerPc' = "send_err"
          /\ UNCHANGED <<line, linesRead, owed>>
    /\ UNCHANGED <<toolVars, mainVars, setupVars, registryVars, registrarVars, limiterVars, lockVars, clockVars,
                   pc, req, loc, ret, out, events, running, receivedData, initialTimeout,
                   current, stdout>>

(* case line := <-lines, to the point where handleMessage has its answer or *)
(* must take a lock; the reader goroutine goes on behind the send            *)
RecvLine ==
    /\ running = "select"
    /\ readerPc \in {"send_line", "send_last"}
    /\ readerPc' = IF readerPc = "send_line" THEN "read" ELSE "send_eof"
    /\ receivedData' = TRUE
    /\ current' = linesRead
    /\ LET text == trimLine(line)
       IN  IF text = <<>>
           THEN UNCHANGED <<running, pc, req, loc, ret>>
           ELSE /\ running' = "handling"
                /\ req' = [req EXCEPT ![Main] = StdioRequest(Unmarshal(text))]
                /\ Dispatch(Main, Unmarshal(text), "ok", Routed)
    /\ UNCHANGED <<toolVars, mainVars, setupVars, registryVars, registrarVars, limiterVars, lockVars, clockVars,
                   out, events, initialTimeout, line, linesRead, stdout, owed>>

(* mutant: the newest line is written in front of the earlier ones *)
sendResponseInFront(written, serial, response) ==
    <<[serial |-> serial, response |-> Serialize(response)]>> \o written

(* sendResponse: json.Marshal and fmt.Fprintln(s.stdout, ...) *)
sendResponse(written, serial, response) ==
    Append(written, [serial |-> serial, response |-> Serialize(response)])

(* mutant: the loop ends after it has reported a parse error *)
AfterSendStopsOnParseError(response) ==
    IF response.error.code = ParseError THEN "parse error" ELSE "select"

(* the line case has no return statement: the loop goes round again *)
AfterSend(response) == "select"

(* if response != nil { s.sendResponse(response) }, then back to the select *)
StdioSend ==
    /\ running = "handling"
    /\ pc[Main] = "write"
    /\ stdout' = IF ret[Main] = NoResponse THEN stdout
                 ELSE sendResponse(stdout, current, ret[Main])
    /\ running' = AfterSend(ret[Main])
    /\ pc' = [pc EXCEPT ![Main] = "idle"]
    /\ req' = [req EXCEPT ![Main] = NoRequest]
    /\ loc' = [loc EXCEPT ![Main] = NoLocals]
    /\ ret' = [ret EXCEPT ![Main] = NoResponse]
    /\ events' = [events EXCEPT ![Main] = <<>>]
    /\ UNCHANGED <<toolVars, mainVars, setupVars, registryVars, registrarVars, limiterVars, lockVars, clockVars,
                   out, receivedData, initialTimeout, readerPc, line, linesRead, current, owed>>

(* mutant: end-of-stream always ends the loop successfully *)
RunReturnsAlwaysNil(eof, received) == IF eof THEN "nil" ELSE "read error"

(* what Run returns in case err := <-errors *)
RunReturns(eof, received) ==
    IF eof
    THEN IF received THEN "nil" ELSE "stdin closed before receiving any data"
    ELSE "read error"

(* case err := <-errors *)
RecvError ==
    /\ running = "select"
    /\ readerPc \in {"send_eof", "send_err"}
    /\ readerPc' = "exited"
    /\ running' = RunReturns(readerPc = "send_eof", receivedData)
    /\ UNCHANGED <<toolVars, mainVars, setupVars, registryVars, registrarVars, limiterVars, lockVars, clockVars,
                   pc, req, loc, ret, out, events, receivedData, initialTimeout, line,
                   linesRead, current, stdout, owed>>

(* mutant: the timer is not armed again *)
RearmNever(received, t) == NoTimer

(* if !receivedData { initialTimeout = time.After(24 * time.Hour) } *)
Rearm(received, t) == IF ~received THEN Timer(t + ExtendedTimeoutSeconds) ELSE NoTimer

(* mutant: the loop gives up when the timer fires before any data *)
AfterTimeoutGivesUp(received) == IF ~received THEN "initial timeout" ELSE "select"

(* the timer case has no return statement: the loop goes round again *)
AfterTimeout(received) == "select"

(* case <-initialTimeout *)
Timeout ==
    /\ running = "select"
    /\ ~initialTimeout.drained
    /\ now >= initialTimeout.deadline
    /\ initialTimeout' = Rearm(receivedData, now)
    /\ running' = AfterTimeout(receivedData)
    /\ UNCHANGED <<toolVars, mainVars, setupVars, registryVars, registrarVars, limiterVars, lockVars, clockVars,
                   pc, req, loc, ret, out, events, receivedData, readerPc, line, linesRead,
                   current, stdout, owed>>

-----------------------------------------------------------------------------
(* Specifications *)

(* One exchange at a time, every kind of request; main registers the tools  *)
(* before it starts the transport; the clock stands still.                  *)
Next ==
    \/ SetToolCallCallback
    \/ SetErrorCallback
    \/ RegisterResourceProvider
    \/ RegisterPromptProvider
    \/ RunHTTP
    \/ ~started /\ RegisterTool(MaxRegs)
    \/ ~started /\ RegisterToolWithContext(MaxRegs)
    \/ RegisterAppend
    \/ RegisterStore
    \/ Receive("p1", HTTPRequests)
    \/ ServeCall("p1", HandlerOutcomes)
    \/ ServeList("p1")
    \/ ServeEnd("p1")

Spec == Init /\ [][Next]_vars

(* Concurrent tools/call exchanges against the one rate limiter, with the   *)
(* clock running and authentication off.                                    *)
InitConc == Init /\ authToken = ""

NextConc ==
    \/ RunHTTP
    \/ Tick
    \/ ~started /\ RegisterTool(1)
    \/ RegisterAppend
    \/ RegisterStore
    \/ \E p \in AllProcs :
           \/ Len(admitted) < MaxAdmitted /\ Receive(p, CallRequests)
           \/ ServeCall(p, CallOutcomes)
           \/ ServeEnd(p)

SpecConc == InitConc /\ [][NextConc]_vars

(* Registration running concurrently with tools/list exchanges. *)
NextList ==
    \/ RunHTTP
    \/ RegisterTool(MaxListRegs)
    \/ RegisterToolWithContext(MaxListRegs)
    \/ RegisterAppend
    \/ RegisterStore
    \/ \E p \in AllProcs :
           \/ Receive(p, ListRequests)
           \/ ServeList(p)
           \/ ServeEnd(p)

SpecList == InitConc /\ [][NextList]_vars


(* The protocol route with MCP_AUTH_TOKEN set, behind the default or a      *)
(* custom authorizer.                                                        *)
InitAuth == Init /\ authToken = "secret"

NextAuth ==
    \/ SetToolCallCallback
    \/ SetErrorCallback
    \/ ~started /\ RegisterTool(1)
    \/ RegisterAppend
    \/ RegisterStore
    \/ RunHTTP
    \/ RunHTTPWithAuthorizer
    \/ Receive("p1", AuthRequests)
    \/ ServeCall("p1", CallOutcomes)
    \/ ServeEnd("p1")

SpecAuth == InitAuth /\ [][NextAuth]_vars

(* The stdio transport: the reader goroutine, the main loop serving one     *)
(* line at a time, and the clock behind the initial timer.                  *)
NextStdio ==
    \/ running = "none" /\ RegisterTool(1)
    \/ RegisterAppend
    \/ RegisterStore
    \/ Run
    \/ Tick
    \/ ReaderRead
    \/ RecvLine
    \/ RecvError
    \/ Timeout
    \/ ServeCall(Main, CallOutcomes)
    \/ ServeList(Main)
    \/ StdioSend

SpecStdio == InitConc /\ [][NextStdio]_vars

-----------------------------------------------------------------------------
(* pkg/servicenow (the HTTP client) and pkg/tools (the tool registry that   *)
(* main builds with NewRegistry(client, logger, readOnlyMode)).  A handler  *)
(* runs to completion in one step; sent is the log of the HTTP requests the *)
(* client's http.Client.Do sent to the ServiceNow instance.                 *)

serverVars == <<setupVars, registryVars, registrarVars, stdioVars, limiterVars, lockVars,
                clockVars, pc, req, loc, ret, out, events>>

AuthTypes == {"basic", "oauth", "api_key"}
WriteMethods == {"POST", "PUT", "PATCH", "DELETE"}
ReadToolNames == {"list_incidents"}
WriteToolNames == {"create_incident", "update_incident", "delete_workflow"}
Grants == {"client_credentials", "password", "denied"}

ApiRequest(method) == [method |-> method, endpoint |-> "api/now"]
TokenRequest == [method |-> "POST", endpoint |-> "oauth_token.do"]

WriteBlockedResult == ToolResult(<<"This operation is blocked in read-only mode">>, TRUE)

(* getOAuthToken: the cached token, or a client_credentials request and,   *)
(* when that is refused, a password request                                *)
getOAuthToken(cached, grant) ==
    IF cached # "" THEN [sends |-> <<>>, token |-> cached, err |-> FALSE]
    ELSE IF grant = "client_credentials"
    THEN [sends |-> <<TokenRequest>>, token |-> "granted", err |-> FALSE]
    ELSE [sends |-> <<TokenRequest, TokenRequest>>,
          token |-> IF grant = "password" THEN "granted" ELSE "",
          err |-> grant # "password"]

GetHeaders(type, cached, grant) ==
    IF type = "oauth" THEN getOAuthToken(cached, grant)
    ELSE [sends |-> <<>>, token |-> cached, err |-> FALSE]

(* Client.Request: the headers first, then the request itself *)
Request(method, type, cached, grant, apiFails) ==
    LET h == GetHeaders(type, cached, grant)
    IN  [sends |-> IF h.err THEN h.sends ELSE h.sends \o <<ApiRequest(method)>>,
         token |-> h.token,
         err |-> h.err \/ apiFails]

(* the client calls a handler makes, in order; it returns at the first error *)
RECURSIVE Perform(_, _, _, _, _)
Perform(methods, type, cached, grant, failAt) ==
    IF methods = <<>> THEN [sends |-> <<>>, token |-> cached, err |-> FALSE]
    ELSE LET r == Request(Head(methods), type, cached, grant, failAt = 1)
         IN  IF r.err THEN r
             ELSE LET rest == Perform(Tail(methods), type, r.token, grant, failAt - 1)
                  IN  [sends |-> r.sends \o rest.sends, token |-> rest.token, err |-> rest.err]

(* listIncidents, createIncident, updateIncident, deleteWorkflow *)
ClientCalls(name) ==
    CASE name = "list_incidents" -> <<"GET">>
      [] name = "create_incident" -> <<"POST">>
      [] name = "update_incident" -> <<"GET", "PUT">>
      [] name = "delete_workflow" -> <<"DELETE">>

(* mutant: the write handlers do not look at readOnlyMode *)
WriteBlockedNever(readOnly, name) == FALSE

(* if r.readOnlyMode { return WriteBlockedResult(), nil } opens every write handler *)
WriteBlocked(readOnly, name) == readOnly /\ name \in WriteToolNames

Call(name, via, result, sends) == [name |-> name, via |-> via, result |-> result, sends |-> sends]

Handle(name, via, grant, failAt) ==
    IF WriteBlocked(readOnlyMode, name)
    THEN /\ lastCall' = Call(name, via, WriteBlockedResult, 0)
         /\ UNCHANGED <<clientToken, sent>>
    ELSE LET r == Perform(ClientCalls(name), authType, clientToken, grant, failAt)
         IN  /\ Len(sent) + Len(r.sends) <= MaxSent
             /\ sent' = sent \o r.sends
             /\ clientToken' = r.token
             /\ lastCall' = Call(name, via,
                                 ToolResult(<<IF r.err THEN "error" ELSE "success">>, FALSE),
                                 Len(r.sends))

NewClient ==
    /\ authType = ""
    /\ authType' \in AuthTypes
    /\ UNCHANGED <<serverVars, mainVars, clientToken, registry, readOnlyMode, registered, sent,
                   lastCall>>

NewRegistry ==
    /\ authType # "" /\ registry = "nil"
    /\ registry' = "new"
    /\ readOnlyMode' \in BOOLEAN
    /\ UNCHANGED <<serverVars, mainVars, authType, clientToken, registered, sent, lastCall>>

(* RegisterAll: the read tools always, the write tools inside if !r.readOnlyMode *)
RegisterAll ==
    /\ registry = "new"
    /\ registry' = "registered"
    /\ registered' = ReadToolNames \cup (IF ~readOnlyMode THEN WriteToolNames ELSE {})
    /\ UNCHANGED <<serverVars, mainVars, authType, clientToken, readOnlyMode, sent, lastCall>>

(* a tools/call request: the server runs the handler registered under the name *)
CallTool ==
    /\ registry = "registered"
    /\ \E name \in ReadToolNames \cup WriteToolNames :
          IF name \in registered
          THEN \E grant \in Grants, failAt \in 0..2 : Handle(name, "tools/call", grant, failAt)
          ELSE /\ lastCall' = Call(name, "tools/call", UnknownToolResult(name), 0)
               /\ UNCHANGED <<clientToken, sent>>
    /\ UNCHANGED <<serverVars, mainVars, authType, registry, readOnlyMode, registered>>

(* a handler method of the Registry applied to its arguments *)
ApplyHandler ==
    /\ registry # "nil"
    /\ \E name \in ReadToolNames \cup WriteToolNames, grant \in Grants, failAt \in 0..2 :
          Handle(name, "handler", grant, failAt)
    /\ UNCHANGED <<serverVars, mainVars, authType, registry, readOnlyMode, registered>>

NextTools ==
    \/ NewClient
    \/ NewRegistry
    \/ RegisterAll
    \/ CallTool
    \/ ApplyHandler

SpecTools == Init /\ [][NextTools]_vars

-----------------------------------------------------------------------------
(* main: the transport goroutine, sigChan and the wait for a signal.  A     *)
(* signal on the channel is tagged with who sent it: the operating system   *)
(* through signal.Notify, or the transport goroutine.                       *)

Signals == {"SIGINT", "SIGTERM"}

Alive == sig = NoSignal

(* go func() { ... runErr = server.Run() ... }() *)
StartTransport ==
    /\ Alive /\ runnerPc = "none"
    /\ regpc = "idle"
    /\ runnerPc' = "running"
    /\ UNCHANGED <<serverVars, toolVars, sigChan, sig>>

(* mutant: the goroutine injects SIGTERM whatever the transport returned *)
InjectsAlways(runErr) == TRUE

(* if runErr != nil { ...; sigChan <- syscall.SIGTERM } *)
Injects(runErr) == runErr # "nil"

(* the transport has returned: the goroutine's last statement *)
Report ==
    /\ Alive /\ runnerPc = "running"
    /\ running \notin {"none", "select", "handling"}
    /\ IF Injects(running)
       THEN /\ Len(sigChan) < 1
            /\ sigChan' = Append(sigChan, Signal("SIGTERM", "runner"))
       ELSE UNCHANGED sigChan
    /\ runnerPc' = "done"
    /\ UNCHANGED <<serverVars, toolVars, sig>>

(* signal.Notify(sigChan, SIGINT, SIGTERM): a send that does not block; a  *)
(* signal that finds the channel full is dropped                           *)
ExternalSignal ==
    /\ Alive
    /\ \E name \in Signals :
          sigChan' = IF Len(sigChan) < 1 THEN Append(sigChan, Signal(name, "os")) ELSE sigChan
    /\ UNCHANGED <<serverVars, toolVars, sig, runnerPc>>

(* sig := <-sigChan; logger.LogShutdown(...); main returns *)
Shutdown ==
    /\ Alive
    /\ sigChan # <<>>
    /\ sig' = Head(sigChan)
    /\ sigChan' = Tail(sigChan)
    /\ UNCHANGED <<serverVars, toolVars, runnerPc>>

(* The process in stdio mode: main registers a tool, starts the transport   *)
(* goroutine and waits for a signal; nothing runs once main has returned.   *)
NextMain ==
    \/ runnerPc = "none" /\ RegisterTool(1)
    \/ RegisterAppend
    \/ RegisterStore
    \/ StartTransport
    \/ Alive /\ runnerPc = "running" /\ Run
    \/ Alive /\ ReaderRead
    \/ Alive /\ RecvLine
    \/ Alive /\ RecvError
    \/ Alive /\ ServeCall(Main, CallOutcomes)
    \/ Alive /\ ServeList(Main)
    \/ Alive /\ StdioSend
    \/ Report
    \/ ExternalSignal
    \/ Shutdown

SpecMain == InitConc /\ [][NextMain]_vars

-----------------------------------------------------------------------------
(* Properties *)

Msg(p) == req[p].msg

(* handleMessageWithContext has returned ret[p] for the request req[p] *)
Returned(p) == pc[p] \in {"write", "done"} /\ loc[p].routed

(* ... and the HTTP handler has written its reply out[p] *)
Replied(p) == pc[p] = "done" /\ loc[p].routed

IsCall(p) == Msg(p).decodes /\ Msg(p).method = "tools/call" /\ ValidateCall(Msg(p).params).nil

(* C1: every message that decodes and carries a non-null id gets exactly    *)
(* one response, and that response's id is the request's id, whatever the   *)
(* method and whatever the handler returned.                                 *)
C1_OneResponseWithRequestId ==
    \A p \in AllProcs :
        (Returned(p) /\ Msg(p).decodes /\ Msg(p).id # Null) =>
            /\ ret[p] # NoResponse
            /\ ret[p].id = Msg(p).id
            /\ Replied(p) => (Len(out[p].body) = 1 /\ out[p].body[1].id = Msg(p).id)

C1_Witness ==
    \E p \in AllProcs :
        /\ Replied(p) /\ IsCall(p) /\ Msg(p).id = "id2"
        /\ loc[p].outcome = "err"

(* C2: a message that decodes and has a null or absent id gets no response, *)
(* whether or not its method is one the server knows.                        *)
C2_NotificationGetsNoResponse ==
    \A p \in AllProcs :
        (Returned(p) /\ Msg(p).decodes /\ Msg(p).id = Null) =>
            /\ ret[p] = NoResponse
            /\ Replied(p) => out[p].body = <<>>

C2_Witness ==
    \E p \in AllProcs :
        Replied(p) /\ Msg(p).decodes /\ Msg(p).id = Null /\ Msg(p).method = "bogus/method"

(* C5: when the resolved tool handler returns an error, the response is a   *)
(* success envelope (no error object) whose result has isError set and a    *)
(* text that embeds the handler's error message.                             *)
C5_HandlerErrorIsSuccessEnvelope ==
    \A p \in AllProcs :
        (Returned(p) /\ IsCall(p) /\ loc[p].outcome \in {"err", "both"}) =>
            /\ ret[p].error = NoError
            /\ ret[p].result.kind = "CallToolResult"
            /\ ret[p].result.isError
            /\ Contains(ret[p].result.text, HandlerErrorText)

C5_Witness ==
    \E p \in AllProcs :
        Replied(p) /\ IsCall(p) /\ loc[p].outcome = "err" /\ out[p].body[1].result.isError

NoHandlerFor(name) == handlers[name] = 0 /\ ctxHandlers[name] = 0

FlaggedTextNaming(response, name) ==
    /\ response.error = NoError
    /\ response.result.kind = "CallToolResult"
    /\ response.result.isError
    /\ Contains(response.result.text, name)

(* C6 as claimed: a tools/call with a non-null id and a string name that    *)
(* names a tool with no registered handler returns a success envelope whose *)
(* result has isError set and whose text contains the requested name.        *)
C6_UnknownToolNamesTool ==
    \A p \in AllProcs :
        (Returned(p) /\ IsCall(p) /\ Msg(p).id # Null /\ NoHandlerFor(Msg(p).params.name)) =>
            FlaggedTextNaming(ret[p], Msg(p).params.name)

(* C6 as amended: the same, for a call that the rate limiter admitted.  (A  *)
(* call that the limiter rejects never reaches the lookup and is answered   *)
(* with the rate-limit text.)                                                *)
C6_AdmittedUnknownToolNamesTool ==
    \A p \in AllProcs :
        (Returned(p) /\ IsCall(p) /\ Msg(p).id # Null /\ NoHandlerFor(Msg(p).params.name)
            /\ loc[p].limited = "admitted") =>
            FlaggedTextNaming(ret[p], Msg(p).params.name)

C6_Witness ==
    \E p \in AllProcs :
        /\ Replied(p) /\ IsCall(p) /\ Msg(p).params.name = "ghost"
        /\ loc[p].limited = "admitted" /\ regLog # <<>>

(* A response carries a result payload when its Result field holds a value  *)
(* other than nil: a nil pointer stored in it is written as null.            *)
HasResult(response) == response.result.kind \notin {"absent", "nilptr", "null"}
HasError(response) == response.error # NoError

(* C8: every response carries exactly one of a result payload and an error  *)
(* object, for every method and every handler or provider outcome.           *)
C8_ExactlyOneOfResultAndError ==
    \A p \in AllProcs :
        /\ (Returned(p) /\ ret[p] # NoResponse) => (HasResult(ret[p]) # HasError(ret[p]))
        /\ (Replied(p) /\ out[p].body # <<>>) =>
               (HasResult(out[p].body[1]) # HasError(out[p].body[1]))

(* C9: bytes that do not decode are answered with the parse-failure code    *)
(* and a null id, over HTTP in the body of a 200 reply.                      *)
C9_ParseErrorNullIdStatus200 ==
    \A p \in AllProcs :
        (Returned(p) /\ ~Msg(p).decodes) =>
            /\ ret[p].error.code = ParseError
            /\ ret[p].id = Null
            /\ ret[p].result = NoResult
            /\ Replied(p) =>
                   /\ out[p].status = 200
                   /\ Len(out[p].body) = 1
                   /\ out[p].body[1].error.code = ParseError
                   /\ out[p].body[1].id = Null

C9_Witness ==
    \E p \in AllProcs : Replied(p) /\ ~Msg(p).decodes /\ out[p].status = 200

(* C10: a request with a non-null id whose method is not in the routing     *)
(* switch is answered with the method-not-found code and a message that     *)
(* contains the method name.                                                 *)
C10_UnknownMethodNotFound ==
    \A p \in AllProcs :
        (Returned(p) /\ Msg(p).decodes /\ Msg(p).id # Null
            /\ Msg(p).method \notin RequestMethods) =>
            /\ ret[p].error.code = MethodNotFound
            /\ Contains(ret[p].error.message, Msg(p).method)
            /\ ret[p].result = NoResult
            /\ ret[p].id = Msg(p).id

C10_Witness ==
    \E p \in AllProcs :
        /\ Replied(p) /\ Msg(p).decodes /\ Msg(p).id # Null
        /\ Msg(p).method = "bogus/method"
        /\ out[p].body[1].error.code = MethodNotFound

-----------------------------------------------------------------------------
(* Properties of the rate limiter, under SpecConc *)

(* the admissions on record that are less than the window old at time t *)
RecentAdmissions(t) ==
    {i \in DOMAIN admitted : admitted[i] > t - RateLimitWindow /\ admitted[i] <= t}

IsRateLimitResponse(response) ==
    /\ response.error = NoError
    /\ response.result.kind = "CallToolResult"
    /\ response.result.isError
    /\ Contains(response.result.text, RateLimitText)

(* C3: a tools/call that reaches the admission check when 5 calls have been *)
(* admitted less than 20 seconds before it is rejected with a result whose  *)
(* isError is set and whose text is the rate-limit text; one that reaches   *)
(* it when 5 or more have been admitted, all of them more than 20 seconds   *)
(* before, is admitted and recorded.                                         *)
C3_SixthRejectedUntilWindowPasses ==
    [][\A p \in AllProcs :
         (pc[p] = "rl_check" /\ pc'[p] # "rl_check") =>
             /\ Cardinality(RecentAdmissions(loc[p].now)) >= RateLimitCapacity =>
                    /\ pc'[p] = "write"
                    /\ IsRateLimitResponse(ret'[p])
                    /\ admitted' = admitted
             /\ (Len(admitted) >= RateLimitCapacity
                    /\ \A i \in DOMAIN admitted : admitted[i] < loc[p].now - RateLimitWindow) =>
                    /\ pc'[p] = "resolve"
                    /\ admitted' = Append(admitted, loc[p].now)]_vars

C3_Witness ==
    \E p, q \in AllProcs :
        /\ pc[q] \in {"write", "done"} /\ IsRateLimitResponse(ret[q])
        /\ pc[p] = "resolve"
        /\ Len(admitted) = RateLimitCapacity + 1
        /\ admitted[RateLimitCapacity + 1] - admitted[RateLimitCapacity] > RateLimitWindow

(* C4: under every interleaving of the concurrent exchanges, at every       *)
(* instant t at most 5 admissions carry a time in (t - 20s, t], whatever    *)
(* tool each call names and whichever goroutine makes it.                    *)
C4_AtMostFiveAdmittedPerWindow ==
    \A t \in 0..now : Cardinality(RecentAdmissions(t)) <= RateLimitCapacity

C4_Witness ==
    \E p, q \in AllProcs :
        /\ p # q
        /\ pc[p] = "running" /\ loc[p].name = "echo"
        /\ pc[q] = "write" /\ loc[q].limited = "limited" /\ loc[q].name = "ghost"
        /\ Cardinality(RecentAdmissions(now)) = RateLimitCapacity
        /\ now > 0

-----------------------------------------------------------------------------
(* Properties of the registry, under SpecList *)

IsList(p) == Msg(p).decodes /\ Msg(p).method = "tools/list" /\ Msg(p).id # Null

(* C7: whenever the reply to tools/list is encoded, it lists exactly the    *)
(* descriptors whose registration had completed when the list took its      *)
(* lock, in registration order, none missing and none twice, also when      *)
(* registrations run between the unlock and the encoding.                    *)
C7_ListIsRegistrationsBeforeLock ==
    \A p \in AllProcs :
        /\ (pc[p] = "write" /\ loc[p].routed /\ IsList(p)) =>
               Serialize(ret[p]).result.items = loc[p].expect
        /\ (Replied(p) /\ IsList(p)) =>
               /\ out[p].body[1].result.items = loc[p].expect
               /\ \A i \in DOMAIN loc[p].expect : loc[p].expect[i].serial = i

(* the list holds a copy of the slice whose backing array a later           *)
(* registration has appended to in place                                    *)
C7_Witness ==
    \E p \in AllProcs :
        /\ Replied(p) /\ IsList(p)
        /\ Len(out[p].body[1].result.items) = 3
        /\ tools.ptr = loc[p].snap.ptr
        /\ tools.len = 4

-----------------------------------------------------------------------------
(* Properties of the stdio loop, under SpecStdio *)

(* C11: the responses on the output stream are in the order in which their  *)
(* request lines were read: every write appends the response for the line   *)
(* in hand behind the responses for all earlier lines, and none for a later *)
(* line stands before one for an earlier line.                               *)
C11_ResponsesInReadOrder ==
    /\ [](\A i, j \in DOMAIN stdout : i < j => stdout[i].serial < stdout[j].serial)
    /\ [][stdout' # stdout =>
             /\ Len(stdout') = Len(stdout) + 1
             /\ SubSeq(stdout', 1, Len(stdout)) = stdout
             /\ stdout'[Len(stdout')].serial = current
             /\ stdout'[Len(stdout')].response.id = Msg(Main).id]_vars

(* two responses with an unanswered line between them *)
C11_Witness ==
    /\ Len(stdout) = 2
    /\ stdout[1].serial = 1 /\ stdout[2].serial = 3
    /\ stdout[1].response.id = "id2" /\ stdout[2].response.id = "id1"

RunReturned == running \notin {"none", "select", "handling"}

(* C12: Run returns only on an event of the errors channel: nil when it is  *)
(* end-of-stream and at least one line was read before it, an error when it *)
(* is end-of-stream and no line was ever read, an error when it is any      *)
(* other read failure.                                                       *)
C12_RunReturnsOnlyOnStreamEnd ==
    [][(~RunReturned /\ RunReturned') =>
          /\ running = "select"
          /\ readerPc \in {"send_eof", "send_err"}
          /\ (readerPc = "send_eof" /\ linesRead > 0) => running' = "nil"
          /\ (readerPc = "send_eof" /\ linesRead = 0) =>
                 running' = "stdin closed before receiving any data"
          /\ readerPc = "send_err" => running' = "read error"]_vars

C12_Witness ==
    /\ running = "nil"
    /\ linesRead = 2
    /\ Len(stdout) = 1

(* the step in which the main loop takes the timer case *)
TimerCase == running = "select" /\ initialTimeout' # initialTimeout

(* C13: when the 30-second timer fires and no line has been received, Run   *)
(* does not return: it arms a 24-hour timer and stays in its loop, where a  *)
(* line the reader offers later is still received and served.                *)
C13_TimeoutWithoutDataRearms ==
    /\ [][(TimerCase /\ current = 0) =>
              /\ now >= InitialTimeoutSeconds
              /\ running' = "select"
              /\ initialTimeout' = Timer(now + ExtendedTimeoutSeconds)]_vars
    /\ []((running = "select" /\ readerPc \in {"send_line", "send_last"}) => ENABLED RecvLine)

(* the first line arrived after the timer had fired, and was answered *)
C13_Witness ==
    /\ initialTimeout.deadline >= ExtendedTimeoutSeconds
    /\ ~initialTimeout.drained
    /\ stdout # <<>>
    /\ running = "select"

(* the states of the stdio loop *)
Phase ==
    IF running = "none" THEN "NotStarted"
    ELSE IF RunReturned THEN "Terminated"
    ELSE IF receivedData THEN "Streaming"
    ELSE "AwaitingFirstLine"

PhaseSteps ==
    {<<"NotStarted", "AwaitingFirstLine">>, <<"AwaitingFirstLine", "Streaming">>,
     <<"AwaitingFirstLine", "Terminated">>, <<"Streaming", "Terminated">>}

(* C14 as claimed: the loop moves AwaitingFirstLine -> Streaming ->          *)
(* Terminated, the timer firing with no data received moves                  *)
(* AwaitingFirstLine to Terminated, and either state moves to Terminated on *)
(* a read error or end-of-stream.                                            *)
C14_TimeoutTerminates ==
    [][/\ Phase' # Phase => <<Phase, Phase'>> \in PhaseSteps
       /\ (TimerCase /\ Phase = "AwaitingFirstLine") => Phase' = "Terminated"
       /\ (running = "select" /\ readerPc' = "exited" /\ readerPc # "exited") =>
              Phase' = "Terminated"]_vars

(* C14 as amended: the same state machine, but the timer firing with no     *)
(* data received leaves the loop in AwaitingFirstLine (with the timer       *)
(* re-armed); AwaitingFirstLine moves to Terminated only with an error      *)
(* return, on a read error or end-of-stream before any line; Streaming      *)
(* moves to Terminated on a read error or, with nil, on end-of-stream.       *)
C14_TimeoutKeepsAwaiting ==
    [][/\ Phase' # Phase => <<Phase, Phase'>> \in PhaseSteps
       /\ (TimerCase /\ Phase = "AwaitingFirstLine") =>
              Phase' = "AwaitingFirstLine" /\ ~initialTimeout'.drained
       /\ (running = "select" /\ readerPc' = "exited" /\ readerPc # "exited") =>
              Phase' = "Terminated"
       /\ (Phase = "AwaitingFirstLine" /\ Phase' = "Terminated") =>
              /\ readerPc \in {"send_eof", "send_err"}
              /\ running' # "nil"
       /\ (Phase = "Streaming" /\ Phase' = "Terminated") =>
              running' = IF readerPc = "send_eof" THEN "nil" ELSE "read error"]_vars

(* the timer has fired with no data received and the loop still waits *)
C14_Witness ==
    /\ Phase = "AwaitingFirstLine"
    /\ initialTimeout.deadline >= ExtendedTimeoutSeconds
    /\ readerPc = "read"

-----------------------------------------------------------------------------
(* Properties of the authentication gate, under SpecAuth *)

(* the authorizer in use did not accept the token of the request p serves *)
Rejected(p) ==
    IF authorizer # "nil" THEN loc[p].verdict \in {"deny", "error"}
    ELSE Authorize(HeaderToken(req[p]))[2] \/ ~Authorize(HeaderToken(req[p]))[1]

GateFails(p) ==
    /\ IsAuthEnabled
    /\ req[p].httpMethod = "POST"
    /\ (req[p].authorization = "" /\ req[p].xtoken = "") \/ Rejected(p)

IsAuthEnvelope(reply) ==
    /\ reply.status = 401
    /\ Len(reply.body) = 1
    /\ reply.body[1].id = Null
    /\ reply.body[1].error.code = AuthError
    /\ reply.body[1].result = NoResult

(* C15: with authentication enabled, a POST whose token is missing, is      *)
(* rejected by the authorizer or makes the authorizer return an error is    *)
(* answered in one step with the auth-error envelope (code -32001, null     *)
(* id); the step leaves the rate window alone and fires no callback, and   *)
(* no such request is ever found inside the dispatcher or a handler.         *)
C15_AuthFailureNeverDispatched ==
    /\ [][\A p \in AllProcs :
             (pc[p] = "idle" /\ pc'[p] # "idle" /\ GateFails(p)') =>
                 /\ pc'[p] = "done"
                 /\ IsAuthEnvelope(out'[p])
                 /\ ~loc'[p].routed
                 /\ events'[p] = <<>>
                 /\ toolCallTimestamps' = toolCallTimestamps]_vars
    /\ [](\A p \in AllProcs :
             (pc[p] # "idle" /\ GateFails(p)) =>
                 /\ pc[p] = "done"
                 /\ events[p] = <<>>
                 /\ ret[p] = NoResponse)

C15_Witness ==
    \E p \in AllProcs :
        /\ pc[p] = "done" /\ GateFails(p)
        /\ authorizer = "custom" /\ loc[p].verdict = "error"
        /\ handlers["echo"] # 0 /\ onError /\ onToolCall
        /\ toolCallTimestamps # <<>>

-----------------------------------------------------------------------------
(* Properties of handler resolution, under Spec *)

(* the resolved handler of p's tools/call is being or has been invoked *)
Invoked(p) ==
    \/ pc[p] \in {"invoke", "running"}
    \/ Returned(p) /\ IsCall(p) /\ loc[p].outcome # "none"

RegistrationsOf(name) == {i \in DOMAIN regLog : regLog[i].name = name}

Latest(serials) == IF serials = {} THEN 0 ELSE CHOOSE i \in serials : \A j \in serials : j <= i

LastRegistration(name) == Latest(RegistrationsOf(name))

LastOfKind(name, ctx) == Latest({i \in RegistrationsOf(name) : regKinds[i] = ctx})

(* C17 as claimed: when two registrations use the same name, tools/call for *)
(* it invokes the handler of the later registration, whatever the kinds of  *)
(* the two registrations, and tools/list lists both descriptors.             *)
C17_LaterRegistrationInvoked ==
    \A p \in AllProcs :
        /\ (Invoked(p) /\ Cardinality(RegistrationsOf(loc[p].name)) = 2) =>
               loc[p].h = LastRegistration(loc[p].name)
        /\ (Replied(p) /\ IsList(p)) => out[p].body[1].result.items = regLog

(* C17 as amended: tools/call invokes the handler of the later registration *)
(* when the two registrations are of the same kind or the later one is      *)
(* cancellation-aware; when the earlier one is cancellation-aware and the   *)
(* later one plain, it invokes the earlier one's handler.  tools/list lists *)
(* both descriptors.                                                         *)
C17_LaterOfPreferredKindInvoked ==
    \A p \in AllProcs :
        /\ (Invoked(p) /\ Cardinality(RegistrationsOf(loc[p].name)) = 2) =>
               loc[p].h = IF regKinds = <<TRUE, FALSE>> THEN 1 ELSE 2
        /\ (Replied(p) /\ IsList(p)) => out[p].body[1].result.items = regLog

C17_Witness ==
    \E p \in AllProcs :
        /\ Replied(p) /\ IsCall(p) /\ loc[p].outcome = "ok"
        /\ regKinds = <<FALSE, FALSE>>
        /\ loc[p].h = 2

(* C18: when a plain and a cancellation-aware handler are both registered   *)
(* for the name, tools/call invokes the cancellation-aware one; a plain     *)
(* handler is invoked only when the name has no cancellation-aware one.      *)
C18_ContextHandlerPreferred ==
    \A p \in AllProcs :
        Invoked(p) =>
            /\ LastOfKind(loc[p].name, TRUE) # 0 =>
                   loc[p].ctx /\ loc[p].h = LastOfKind(loc[p].name, TRUE)
            /\ ~loc[p].ctx =>
                   /\ LastOfKind(loc[p].name, TRUE) = 0
                   /\ loc[p].h = LastOfKind(loc[p].name, FALSE)

C18_Witness ==
    \E p \in AllProcs :
        /\ Replied(p) /\ IsCall(p)
        /\ regKinds = <<TRUE, FALSE>>
        /\ loc[p].ctx /\ loc[p].h = 1

(* the application faults of p's tools/call *)
HandlerFailed(p) == loc[p].outcome \in {"err", "both"}
RateLimited(p) == loc[p].limited = "limited"
UnknownTool(p) == loc[p].limited = "admitted" /\ NoHandlerFor(loc[p].name)

Flagged(response) ==
    /\ response.error = NoError
    /\ response.result.kind = "CallToolResult"
    /\ response.result.isError

ErrorReported(p) == \E i \in DOMAIN events[p] : events[p][i].cb = "onError"

(* C20 as claimed: with an error callback installed, a handler's error, an  *)
(* unknown tool name and a rate-limit rejection are each reported to it,    *)
(* and each is folded into a success envelope.                               *)
C20_EveryFaultReported ==
    \A p \in AllProcs :
        (Returned(p) /\ IsCall(p) /\ (HandlerFailed(p) \/ RateLimited(p) \/ UnknownTool(p))) =>
            /\ Flagged(ret[p])
            /\ onError => ErrorReported(p)

(* C20 as amended: each of the three faults is folded into a success        *)
(* envelope; the handler's own error is reported to the error callback when *)
(* one is installed, an unknown tool name and a rate-limit rejection are    *)
(* reported to no callback.                                                  *)
C20_OnlyHandlerErrorReported ==
    \A p \in AllProcs :
        (Returned(p) /\ IsCall(p)) =>
            /\ (HandlerFailed(p) \/ RateLimited(p) \/ UnknownTool(p)) => Flagged(ret[p])
            /\ HandlerFailed(p) =>
                   (onError <=> events[p] # <<>> /\ events[p][Len(events[p])] =
                                    ErrorReport(loc[p].name))
            /\ (RateLimited(p) \/ UnknownTool(p)) => events[p] = <<>>

C20_Witness ==
    \E p \in AllProcs :
        /\ Replied(p) /\ IsCall(p) /\ HandlerFailed(p)
        /\ onError /\ onToolCall
        /\ Len(events[p]) = 2

-----------------------------------------------------------------------------
(* Properties of the locks, under SpecConc *)

(* C19: a goroutine holds the rate-limiter lock only inside the admission   *)
(* check and the registry lock only inside the lookup, so neither while its *)
(* handler executes; while a handler executes, another request can enter    *)
(* the admission check and the lookup unless a third party holds the lock,  *)
(* and the registry lock is free for a writer when no lookup is under way.   *)
C19_NoLockHeldAcrossHandler ==
    \A p \in AllProcs :
        /\ rateLimitMu = p => pc[p] = "rl_check"
        /\ p \in muReaders => pc[p] \in {"resolve_read", "list_read"}
        /\ pc[p] = "running" =>
               /\ rateLimitMu # p /\ p \notin muReaders /\ muWriter # p
               /\ \A q \in AllProcs \ {p} :
                      /\ pc[q] = "ratelimit" => ENABLED RateLimitEnter(q)
                      /\ pc[q] = "resolve" => ENABLED ResolveLock(q)
                      /\ pc[q] # "resolve_read" => (muReaders = {} /\ muWriter = NoProc)

C19_Witness ==
    \E p, q \in AllProcs :
        /\ p # q
        /\ pc[p] = "running"
        /\ pc[q] = "resolve_read" /\ q \in muReaders
        /\ toolCallTimestamps # <<>>

-----------------------------------------------------------------------------
(* Read-only mode *)

ReadOnly == registry # "nil" /\ readOnlyMode

(* no write tool is registered, and a write handler returns the             *)
(* write-blocked result without a client call                               *)
WriteToolsShut ==
    /\ registered \cap WriteToolNames = {}
    /\ lastCall.name \in WriteToolNames =>
          /\ lastCall.sends = 0
          /\ lastCall.result = IF lastCall.via = "handler"
                               THEN WriteBlockedResult
                               ELSE UnknownToolResult(lastCall.name)

(* C21 as stated: in read-only mode no POST, PUT, PATCH or DELETE request  *)
(* is ever sent to ServiceNow, write tools are not registered and every    *)
(* write handler returns the write-blocked result before calling the       *)
(* client.                                                                 *)
C21_NoWriteMethodSent ==
    ReadOnly =>
       /\ \A i \in DOMAIN sent : sent[i].method \notin WriteMethods
       /\ WriteToolsShut

(* C21 amended: in read-only mode write tools are not registered, every    *)
(* write handler returns the write-blocked result before calling the       *)
(* client, and the only POST, PUT, PATCH or DELETE request sent to         *)
(* ServiceNow is the OAuth token request of a client that has no cached    *)
(* token.                                                                  *)
C21_NoWriteRequestButTokenRequest ==
    ReadOnly =>
       /\ \A i \in DOMAIN sent : sent[i].method \in WriteMethods => sent[i] = TokenRequest
       /\ (authType # "oauth" => \A i \in DOMAIN sent : sent[i].method \notin WriteMethods)
       /\ WriteToolsShut

(* a read-only registry whose read tool fetched an OAuth token and whose   *)
(* createIncident handler was then called and refused                      *)
C21_Witness ==
    /\ ReadOnly /\ registry = "registered"
    /\ \E i \in DOMAIN sent : sent[i] = TokenRequest
    /\ \E i \in DOMAIN sent : sent[i] = ApiRequest("GET")
    /\ lastCall = Call("create_incident", "handler", WriteBlockedResult, 0)

-----------------------------------------------------------------------------
(* The admission check at the edge of the window, under SpecConc *)

(* process p takes the step from the pruning loop to checkRateLimit's return *)
AtCheck(p) == pc[p] = "rl_check" /\ pc'[p] # "rl_check"

(* what the step left of the old window: the new one without the time it recorded *)
Survivors(p) ==
    IF loc'[p].limited = "admitted"
    THEN SubSeq(toolCallTimestamps', 1, Len(toolCallTimestamps') - 1)
    ELSE toolCallTimestamps'

NotOlderThanWindow(t) == SelectSeq(toolCallTimestamps, LAMBDA ts : ts >= t - RateLimitWindow)
YoungerThanWindow(t) == SelectSeq(toolCallTimestamps, LAMBDA ts : ts > t - RateLimitWindow)

(* C22 as stated: an admission check keeps every recorded timestamp t with *)
(* t >= now - 20s and counts it toward the capacity of 5, so a call made   *)
(* exactly 20 seconds after 5 simultaneous admitted calls is rejected.     *)
C22_KeepsTimesAtWindowEdge ==
    [][\A p \in AllProcs :
         AtCheck(p) =>
             /\ Survivors(p) = NotOlderThanWindow(loc[p].now)
             /\ Len(NotOlderThanWindow(loc[p].now)) >= RateLimitCapacity =>
                    loc'[p].limited = "limited"]_vars

(* C22 amended: an admission check keeps exactly the recorded timestamps t *)
(* with t > now - 20s; one recorded exactly 20 seconds before is removed   *)
(* and no longer counts, so a call made exactly 20 seconds after 5         *)
(* simultaneous admitted calls is admitted.                                *)
C22_DropsTimesAtWindowEdge ==
    [][\A p \in AllProcs :
         AtCheck(p) =>
             /\ Survivors(p) = YoungerThanWindow(loc[p].now)
             /\ loc'[p].limited = "limited" <=>
                    Len(YoungerThanWindow(loc[p].now)) >= RateLimitCapacity
             /\ (/\ Len(toolCallTimestamps) = RateLimitCapacity
                 /\ \A i \in DOMAIN toolCallTimestamps :
                        toolCallTimestamps[i] = loc[p].now - RateLimitWindow) =>
                    /\ loc'[p].limited = "admitted"
                    /\ toolCallTimestamps' = <<loc[p].now>>]_vars

(* five calls admitted at the same instant and a sixth admitted exactly 20 *)
(* seconds later                                                           *)
C22_Witness ==
    /\ Len(admitted) = RateLimitCapacity + 1
    /\ \A i \in 1..RateLimitCapacity : admitted[i] = admitted[1]
    /\ admitted[RateLimitCapacity + 1] = admitted[1] + RateLimitWindow
    /\ toolCallTimestamps = <<admitted[1] + RateLimitWindow>>

(* C23: a rejected admission check appends no timestamp: it leaves in the  *)
(* window exactly the old entries that have not expired, so the window     *)
(* only ever holds the times of admitted calls and rejected calls never    *)
(* postpone the moment the next call is admitted.                          *)
C23_RejectionRecordsNothing ==
    /\ [](\A i \in DOMAIN toolCallTimestamps :
              \E j \in DOMAIN admitted : toolCallTimestamps[i] = admitted[j])
    /\ [][\A p \in AllProcs :
            (AtCheck(p) /\ loc'[p].limited = "limited") =>
                /\ toolCallTimestamps' = YoungerThanWindow(loc[p].now)
                /\ Len(toolCallTimestamps') <= Len(toolCallTimestamps)
                /\ admitted' = admitted]_vars

(* a call rejected while five admissions of time 0 filled the window, and  *)
(* another call admitted as soon as those five expired                     *)
C23_Witness ==
    \E p, q \in AllProcs :
        /\ p # q
        /\ pc[q] \in {"write", "done"} /\ loc[q].limited = "limited"
        /\ pc[p] = "resolve" /\ loc[p].limited = "admitted"
        /\ admitted = <<0, 0, 0, 0, 0, RateLimitWindow>>
        /\ toolCallTimestamps = <<RateLimitWindow>>

-----------------------------------------------------------------------------
(* The rejected call's path through the pipeline, under Spec *)

(* C24: a tools/call rejected by the rate limiter short-circuits the       *)
(* pipeline: it goes from the admission check straight to its response,    *)
(* the rate-limit result; the registry is not consulted (no read lock, no  *)
(* handler resolved), no handler is invoked and no callback is called for  *)
(* that request.                                                           *)
C24_RejectedCallShortCircuits ==
    \A p \in AllProcs :
        RateLimited(p) =>
            /\ pc[p] \in {"write", "done"}
            /\ IsRateLimitResponse(ret[p])
            /\ p \notin muReaders
            /\ loc[p].h = 0
            /\ ~Invoked(p)
            /\ events[p] = <<>>

(* a rejected call for a registered tool, with the telemetry callback set  *)
C24_Witness ==
    /\ pc["p1"] = "done" /\ RateLimited("p1")
    /\ loc["p1"].name = "echo" /\ handlers["echo"] # 0
    /\ onToolCall

-----------------------------------------------------------------------------
(* Faults and end-of-stream in the stdio loop, under SpecStdio *)

(* the main loop has finished with line i *)
Handled(i) == i < current \/ (i = current /\ running # "handling")

(* the output stream holds the response that line i calls for *)
Answered(i) ==
    \E k \in DOMAIN stdout :
        /\ stdout[k].serial = i
        /\ IF owed[i] = ParseError
           THEN stdout[k].response = Serialize(ParseErrorResponse)
           ELSE stdout[k].response.id = owed[i] /\ stdout[k].response.error = NoError

(* C25: a line that fails to decode ends only its own exchange: the loop   *)
(* writes the parse-error response and returns to its select, where the    *)
(* next line the reader offers is received, and every well-formed request  *)
(* line handled after a faulty one has its response on the output stream.  *)
C25_ParseErrorEndsOnlyItsExchange ==
    /\ [][(running = "handling" /\ ~Msg(Main).decodes /\ running' # "handling") =>
              /\ stdout' = sendResponse(stdout, current, ParseErrorResponse)
              /\ running' = "select"]_vars
    /\ []((running = "select" /\ readerPc \in {"send_line", "send_last"}) => ENABLED RecvLine)
    /\ [](\A i \in DOMAIN owed :
              (Handled(i) /\ owed[i] \in IDs /\ \E j \in 1..(i - 1) : owed[j] = ParseError) =>
                  Answered(i))

(* a parse-error response followed by the response to the next line *)
C25_Witness ==
    /\ Len(stdout) = 2
    /\ owed[1] = ParseError /\ stdout[1] = [serial |-> 1, response |-> Serialize(ParseErrorResponse)]
    /\ owed[2] = "id1" /\ stdout[2].serial = 2 /\ stdout[2].response.id = "id1"
    /\ running = "select"

(* C28: when Run returns on end-of-stream, every line the reader obtained, *)
(* a final line without a newline included, has been received by the main  *)
(* loop, every non-blank one has been dispatched, and each response they   *)
(* call for is on the output stream; a received non-blank line is          *)
(* dispatched in the step that receives it.                                *)
C28_LinesAnsweredBeforeReturn ==
    /\ [](running \in {"nil", "stdin closed before receiving any data"} =>
              /\ current = linesRead
              /\ pc[Main] = "idle"
              /\ \A i \in DOMAIN owed : owed[i] # "" => Answered(i))
    /\ [][(current' # current /\ trimLine(line) # <<>>) =>
              /\ running' = "handling"
              /\ req'[Main].msg = Unmarshal(trimLine(line))]_vars

(* Run returned nil after a request line and a final ping without newline, *)
(* both answered                                                           *)
C28_Witness ==
    /\ running = "nil"
    /\ line = <<PingText>>
    /\ owed = <<"id2", "id1">>
    /\ Len(stdout) = 2
    /\ stdout[2].serial = 2 /\ stdout[2].response.id = "id1"

-----------------------------------------------------------------------------
(* What reaches the rate window and the routing table, under Spec *)

(* p's request is a tools/call with an id whose parameters fail validation *)
InvalidCall(p) ==
    /\ Msg(p).decodes /\ Msg(p).id # Null
    /\ Msg(p).method = "tools/call"
    /\ ~ValidateCall(Msg(p).params).nil

(* C26: the rate window records a timestamp for exactly the tools/call     *)
(* requests that pass parameter validation and are admitted: a record is   *)
(* made only by the admission check of a validated call, each admission    *)
(* makes one; a call for an unregistered tool or one whose handler fails   *)
(* has been admitted and recorded, and a call with non-object params or a  *)
(* missing or non-string name gets its error without reaching the check.   *)
C26_WindowRecordsValidatedAdmittedCalls ==
    /\ [][\A p \in AllProcs :
            /\ (AtCheck(p) /\ loc'[p].limited = "admitted") =>
                   /\ IsCall(p)
                   /\ toolCallTimestamps' =
                          Append(YoungerThanWindow(loc[p].now), loc[p].now)
                   /\ admitted' = Append(admitted, loc[p].now)
            /\ (loc'[p].limited = "admitted" /\ loc[p].limited # "admitted") => AtCheck(p)]_vars
    /\ [][admitted' # admitted =>
            \E p \in AllProcs : AtCheck(p) /\ IsCall(p) /\ loc'[p].limited = "admitted"]_vars
    /\ [](\A p \in AllProcs :
            /\ (Returned(p) /\ IsCall(p)
                  /\ (HandlerFailed(p) \/ ret[p].result = UnknownToolResult(loc[p].name))) =>
                   loc[p].limited = "admitted"
            /\ (pc[p] # "idle" /\ loc[p].routed /\ InvalidCall(p)) =>
                   /\ loc[p].limited = "unchecked"
                   /\ pc[p] \in {"write", "done"}
                   /\ HasError(ret[p]))

(* one call for an unregistered tool, admitted and recorded in the window  *)
C26_Witness ==
    /\ pc["p1"] = "done" /\ IsCall("p1")
    /\ ret["p1"].result = UnknownToolResult("ghost")
    /\ loc["p1"].limited = "admitted"
    /\ Len(toolCallTimestamps) = 1 /\ Len(admitted) = 1

(* p's request passed the gate and decodes into a message without an id *)
WithoutId(p) == pc[p] # "idle" /\ loc[p].routed /\ Msg(p).decodes /\ Msg(p).id = Null

(* C27: a message with a null or absent id never reaches the request       *)
(* routing table, whatever its method: it gets no response, takes no lock, *)
(* meets no admission check, has no handler invoked and no callback fired, *)
(* and the rate window stays as it was.                                    *)
C27_NullIdNeverRouted ==
    /\ [](\A p \in AllProcs :
            WithoutId(p) =>
                /\ pc[p] \in {"write", "done"}
                /\ ret[p] = NoResponse
                /\ loc[p].limited = "unchecked"
                /\ ~Invoked(p)
                /\ loc[p].h = 0
                /\ events[p] = <<>>
                /\ p \notin muReaders /\ rateLimitMu # p)
    /\ [][(\E p \in AllProcs : WithoutId(p) \/ WithoutId(p)') =>
              UNCHANGED <<toolCallTimestamps, admitted>>]_vars

(* a tools/call without id for a registered tool, served with the callback set *)
C27_Witness ==
    /\ pc["p1"] = "done" /\ WithoutId("p1")
    /\ Msg("p1").method = "tools/call"
    /\ Msg("p1").params.name = "echo" /\ handlers["echo"] # 0
    /\ onToolCall /\ onError

-----------------------------------------------------------------------------
(* Shutdown of the process, under SpecMain *)

FromRunner(s) == s.from = "runner"

(* C29: the transport goroutine puts a SIGTERM on sigChan exactly when the *)
(* transport returned a non-nil error; when Run returned nil it puts       *)
(* nothing there, and main, which leaves its wait only by receiving from   *)
(* sigChan, then goes on waiting until a SIGINT or SIGTERM of the          *)
(* operating system arrives.                                               *)
C29_OnlyTransportErrorInjectsSignal ==
    /\ [][(runnerPc = "running" /\ runnerPc' = "done") =>
              IF running = "nil"
              THEN sigChan' = sigChan
              ELSE sigChan' = Append(sigChan, Signal("SIGTERM", "runner"))]_vars
    /\ [][sig' # sig => (sig = NoSignal /\ sigChan # <<>> /\ sig' = Head(sigChan))]_vars
    /\ [](running = "nil" =>
              /\ ~FromRunner(sig)
              /\ \A i \in DOMAIN sigChan : ~FromRunner(sigChan[i])
              /\ (sigChan = <<>> /\ Alive) => ~ENABLED Shutdown)
    /\ []((FromRunner(sig) \/ \E i \in DOMAIN sigChan : FromRunner(sigChan[i])) =>
              running \in {"stdin closed before receiving any data", "read error"})

(* Run returned nil, the goroutine ended without a signal, and main left   *)
(* its wait on a signal of the operating system                            *)
C29_Witness ==
    /\ running = "nil" /\ runnerPc = "done"
    /\ sig = Signal("SIGINT", "os")

-----------------------------------------------------------------------------
(* The header the gate validates, under SpecAuth *)

(* the header value the statement says is validated *)
AuthorizationElseCustom(r) == IF r.authorization # "" THEN r.authorization ELSE r.xtoken

(* the expected token "secret", bare or behind "Bearer " *)
Accepted == {"secret", "Bearer secret"}

(* C30: with authentication enabled and the default authorizer, a POST is  *)
(* answered with the auth-error envelope exactly when the Authorization    *)
(* header, or the X-MCP-Auth-Token header if Authorization is empty, does  *)
(* not carry the expected token; a non-empty invalid Authorization header  *)
(* is rejected whatever the X-MCP-Auth-Token header holds.                 *)
C30_AuthorizationValidatedFirst ==
    \A p \in AllProcs :
        (pc[p] # "idle" /\ IsAuthEnabled /\ authorizer = "nil" /\ req[p].httpMethod = "POST") =>
            /\ IsAuthEnvelope(out[p]) <=> AuthorizationElseCustom(req[p]) \notin Accepted
            /\ (req[p].authorization # "" /\ req[p].authorization \notin Accepted) =>
                   /\ IsAuthEnvelope(out[p])
                   /\ pc[p] = "done"
                   /\ ~loc[p].routed

(* a refused Authorization header beside a valid X-MCP-Auth-Token header   *)
C30_Witness ==
    /\ authorizer = "nil" /\ IsAuthEnabled
    /\ pc["p1"] = "done"
    /\ req["p1"].authorization = "Bearer wrong" /\ req["p1"].xtoken = authToken
    /\ out["p1"] = HttpReply(401, "application/json",
                             <<AuthEnvelope("Unauthorized: invalid authentication token")>>)

====
